---- MODULE Spec2Model ----
(***************************************************************************)
(* Admin backend of my-categories: the Cloudflare purge client with its    *)
(* single-slot "last batch" state, the purge endpoints that use it, the    *)
(* admin session codec with the middleware that gates /admin, and the      *)
(* database layer: the error classifier, runInTransaction, the row updates *)
(* of products and blog posts and their endpoints.                         *)
(*                                                                         *)
(* A URL is a natural number (the identity of a URL string), an HTTP       *)
(* status is its number, a string of the session codec is a sequence of    *)
(* characters.  JavaScript      runs one handler at a time and switches    *)
(* handlers only at an await, so an action is the code between two awaits  *)
(* that touch shared state or the network.                                 *)
(***************************************************************************)
EXTENDS Integers, Sequences, FiniteSets, TLC

VARIABLES
    env,        \* the process environment (set before the process starts)
    lastBatch,  \* lib/server/cloudflare/state: the module variable lastBatch
    req,        \* the requests in flight, one record per request slot
    now,        \* Date.now(), in milliseconds
    lastCall,   \* history: the argument of the latest recordCloudflarePurgeBatch
    lastPurge,  \* history: the latest purge-triggering operation and its URLs
    adminPassword,  \* process.env.ADMIN_PASSWORD
    cookie,     \* the session cookie a browser holds, with how it was made
    bearer,     \* the session token a script holds, with how it was made
    verdict,    \* history: the latest call of the codec or the middleware
    classified, \* history: the latest call of toDbErrorInfo
    tx,         \* the calls of runInTransaction, one for each caller
    db,         \* the rows of the products and posts tables and the row lock
    upd         \* the requests to the row-update endpoints, one for each caller

vars == <<env, lastBatch, req, now, lastCall, lastPurge, adminPassword, cookie, bearer, verdict,
          classified, tx, db, upd>>

purgeVars == <<env, lastBatch, req, now, lastCall, lastPurge>>
authVars == <<adminPassword, cookie, bearer, verdict>>
dataVars == <<classified, tx, db, upd>>
rowVars == <<db, upd>>

(***************************** bounds ************************************)
\* Longest URL list handed to the purge client.
MaxUrls == 5000
\* Ticks of the clock in one behaviour.
MaxTicks == 1

(************************ program constants ******************************)
MAX_URLS_PER_REQUEST == 2000
\* purgeChunk: while (attempts < 2)
MAX_ATTEMPTS == 2

NULL == [null |-> TRUE]

Min(a, b) == IF a < b THEN a ELSE b

\* The elements of a sequence.
Range(s) == {s[i] : i \in 1..Len(s)}

\* Slice with the element at `to` taken too.
SliceInclusive(s, from, to) == SubSeq(s, from + 1, Min(to + 1, Len(s)))

\* Array.prototype.slice(from, to) on a 0-based array, as a 1-based sequence.
Slice(s, from, to) == SubSeq(s, from + 1, Min(to, Len(s)))

\* Array.from(new Set(urls)): the first occurrence of each element, in the
\* order of insertion.  Computed by halves (the elements of the right half that
\* the left half does not hold follow the left half's), which keeps the depth
\* of the evaluation logarithmic in the length.
RECURSIVE DedupRange(_, _, _)
DedupRange(s, lo, hi) ==
    IF lo > hi THEN <<>>
    ELSE IF lo = hi THEN <<s[lo]>>
    ELSE LET mid == (lo + hi) \div 2
             L == DedupRange(s, lo, mid)
             R == DedupRange(s, mid + 1, hi)
             seen == {L[i] : i \in 1..Len(L)}
             fresh(u) == u \notin seen
         IN  L \o SelectSeq(R, fresh)

Dedup(s) == DedupRange(s, 1, Len(s))

(************************* purge.ts: URL sets ****************************)
\* `${base}/sitemap.xml` and `${base}/sitemap-products.xml`
SITEMAP_XML == 1
SITEMAP_PRODUCTS_XML == 2

buildSitemapUrls == <<SITEMAP_XML, SITEMAP_PRODUCTS_XML>>

\* `${base}/p/${encodeURIComponent(slug)}`: one URL per slug, in order.  The
\* product URL of slug n is the URL SITEMAP_PRODUCTS_XML + n.
buildProductUrls(slugs) == [i \in 1..Len(slugs) |-> SITEMAP_PRODUCTS_XML + slugs[i]]

\* for (let i = 0; i < urls.length; i += MAX) chunks.push(urls.slice(i, i + MAX))
RECURSIVE chunkUrlsFrom(_, _)
chunkUrlsFrom(urls, i) ==
    IF i < Len(urls)
    THEN <<Slice(urls, i, i + MAX_URLS_PER_REQUEST)>>
         \o chunkUrlsFrom(urls, i + MAX_URLS_PER_REQUEST)
    ELSE <<>>

chunkUrls(urls) == chunkUrlsFrom(urls, 0)

(************************ purge.ts: purgeChunk ***************************)
\* What the awaited fetch does: a response (status, cf-ray header or "",
\* measured latency), an abort by the timeout, or a network error.
HttpResponse(status, ray, latency) ==
    [type |-> "response", status |-> status, ray |-> ray, latency |-> latency]
Thrown(type, latency) ==
    [type |-> type, status |-> 0, ray |-> "", latency |-> latency]

\* response.ok
ResponseOk(status) == status >= 200 /\ status <= 299

\* (response.status >= 500 || response.status === 524)
RetryableStatus(status) == status >= 500 \/ status = 524

\* rayIds after the attempt: if (rayId) rayIds.push(rayId)
PushRayId(rayIds, out) ==
    IF out.type = "response" /\ out.ray # "" THEN Append(rayIds, out.ray) ELSE rayIds

\* ShouldRetry with a timeout retried whether or not the caller asked for it.
ShouldRetryAnyTimeout(attempts, out, retryOnTimeout) ==
    IF out.type = "response"
    THEN RetryableStatus(out.status) /\ attempts < MAX_ATTEMPTS
    ELSE attempts < MAX_ATTEMPTS /\ out.type = "abort"

\* TRUE when the attempt that ended with `out` is followed by `continue`.
ShouldRetry(attempts, out, retryOnTimeout) ==
    IF out.type = "response"
    THEN RetryableStatus(out.status) /\ attempts < MAX_ATTEMPTS
    ELSE attempts < MAX_ATTEMPTS /\ out.type = "abort" /\ retryOnTimeout

\* ChunkResult with the attempts counted from zero.
ChunkResultCountFromZero(attempts, rayIds, out) ==
    IF out.type = "response"
    THEN [ok |-> ResponseOk(out.status), status |-> out.status,
          rayIds |-> PushRayId(rayIds, out), attempts |-> attempts - 1,
          latencyMs |-> out.latency, mode |-> "files",
          error |-> IF ResponseOk(out.status) THEN "undefined" ELSE "data"]
    ELSE [ok |-> FALSE, status |-> 0, rayIds |-> rayIds, attempts |-> attempts - 1,
          latencyMs |-> out.latency, mode |-> "files", error |-> out.type]

\* The PurgeResult purgeChunk returns after the attempt that ended with `out`.
ChunkResult(attempts, rayIds, out) ==
    IF out.type = "response"
    THEN [ok |-> ResponseOk(out.status), status |-> out.status,
          rayIds |-> PushRayId(rayIds, out), attempts |-> attempts,
          latencyMs |-> out.latency, mode |-> "files",
          error |-> IF ResponseOk(out.status) THEN "undefined" ELSE "data"]
    ELSE [ok |-> FALSE, status |-> 0, rayIds |-> rayIds, attempts |-> attempts,
          latencyMs |-> out.latency, mode |-> "files", error |-> out.type]

\* The return after the loop (purge.ts:196-204).
ExhaustedResult(rayIds) ==
    [ok |-> FALSE, status |-> 0, rayIds |-> rayIds, attempts |-> MAX_ATTEMPTS,
     latencyMs |-> 0, mode |-> "files", error |-> "Failed to purge Cloudflare cache"]

\* while (attempts < 2)
LoopGuard(attempts) == attempts < MAX_ATTEMPTS

(******************** purge.ts: purgeCloudflareUrls **********************)
\* A request slot: which operation runs in it (kind), where it stands (pc:
\* "idle", "fetch" = awaiting the fetch of chunk k, "done" = it has answered),
\* the locals of purgeCloudflareUrls and purgeChunk, its answer (response), and
\* as history the bodies it has sent to the CDN (sent) and how the attempts of
\* the chunk it is at have ended (tried).
Idle ==
    [kind |-> "none", pc |-> "idle", urls |-> <<>>, k |-> 0, attempts |-> 0,
     rayIds |-> <<>>, retryOnTimeout |-> FALSE, results |-> <<>>, sent |-> <<>>,
     tried |-> <<>>, response |-> NULL]

\* results.reduce((total, result) => total + result.latencyMs, 0)
RECURSIVE SumLatency(_)
SumLatency(results) ==
    IF results = <<>> THEN 0
    ELSE SumLatency(SubSeq(results, 1, Len(results) - 1)) + results[Len(results)].latencyMs

\* results.reduce((total, result) => total + result.attempts, 0)
RECURSIVE SumAttempts(_)
SumAttempts(results) ==
    IF results = <<>> THEN 0
    ELSE SumAttempts(SubSeq(results, 1, Len(results) - 1)) + results[Len(results)].attempts

\* results.flatMap((result) => result.rayIds)
RECURSIVE FlatRayIds(_)
FlatRayIds(results) ==
    IF results = <<>> THEN <<>>
    ELSE FlatRayIds(SubSeq(results, 1, Len(results) - 1)) \o results[Len(results)].rayIds

\* results.every((result) => result.ok)
EveryOk(results) == \A i \in 1..Len(results) : results[i].ok

\* PurgeLastBatchResponse that reports the last chunk instead of all of them.
PurgeLastBatchResponseLastChunk(results) ==
    LET last == results[Len(results)]
    IN  [ok |-> last.ok, latency_ms |-> last.latencyMs, ray_ids |-> last.rayIds,
         attempts |-> last.attempts,
         error_code |-> IF last.ok THEN "undefined" ELSE "http_error"]

\* purge-last-batch/route.ts: the JSON answer built from the results.
PurgeLastBatchResponse(results) ==
    [ok |-> EveryOk(results),
     latency_ms |-> SumLatency(results),
     ray_ids |-> FlatRayIds(results),
     attempts |-> SumAttempts(results),
     error_code |-> IF EveryOk(results) THEN "undefined" ELSE "http_error"]

\* purge-sitemaps/route.ts: the JSON answer built from the results.
PurgeSitemapsResponse(results) ==
    [ok |-> EveryOk(results),
     ray_ids |-> FlatRayIds(results),
     latency_ms |-> SumLatency(results),
     attempts |-> SumAttempts(results),
     error_code |-> IF EveryOk(results) THEN "undefined" ELSE "http_error"]

\* purge-everything/route.ts: the JSON answer built from the one result.
PurgeEverythingResponse(result) ==
    [ok |-> result.ok,
     latency_ms |-> result.latencyMs,
     ray_ids |-> result.rayIds,
     attempts |-> result.attempts,
     error_code |-> IF result.ok THEN "undefined" ELSE "http_error"]

\* An answer of an endpoint's catch block, or an early one.
ErrorResponse(code) == [ok |-> FALSE, error_code |-> code, ray_ids |-> <<>>]

\* What the operation of the slot answers once purgeCloudflareUrls has resolved
\* with `results` (purgeChunk called on its own answers its one result).
Respond(kind, results) ==
    CASE kind = "purgeSitemaps" -> PurgeSitemapsResponse(results)
      [] kind = "purgeLastBatch" -> PurgeLastBatchResponse(results)
      [] kind = "purgeChunk" -> [returns |-> results[1]]
      [] kind = "purgeEverything" -> PurgeEverythingResponse(results[1])
      [] OTHER -> [returns |-> results]

\* The chunks the slot works through: purgeChunk called on its own has one, the
\* list it was given; a purge of everything is one request that names no file.
ChunksOf(q) ==
    IF q.kind \in {"purgeChunk", "purgeEverything"} THEN <<q.urls>> ELSE chunkUrls(q.urls)

\* body: JSON.stringify({ files: urls }) of one fetch, for chunk k.
Body(k, files) == [chunk |-> k, files |-> files]

\* AfterChunk that gives up at the first chunk that failed.
AfterChunkFailFast(q, result) ==
    LET chunks == ChunksOf(q)
        results == Append(q.results, result)
    IN  IF q.k < Len(chunks) /\ result.ok
        THEN [q EXCEPT !.k = q.k + 1, !.attempts = 1, !.rayIds = <<>>,
                       !.results = results, !.tried = <<>>,
                       !.sent = Append(@, Body(q.k + 1, chunks[q.k + 1]))]
        ELSE [q EXCEPT !.pc = "done", !.results = results,
                       !.response = Respond(q.kind, results)]

\* The slot after purgeChunk has returned `result` for chunk q.k: the result is
\* pushed and the loop of purgeCloudflareUrls goes on to the next chunk, whose
\* first fetch is issued, or the operation answers.
AfterChunk(q, result) ==
    LET chunks == ChunksOf(q)
        results == Append(q.results, result)
    IN  IF q.k < Len(chunks)
        THEN [q EXCEPT !.k = q.k + 1, !.attempts = 1, !.rayIds = <<>>,
                       !.results = results, !.tried = <<>>,
                       !.sent = Append(@, Body(q.k + 1, chunks[q.k + 1]))]
        ELSE [q EXCEPT !.pc = "done", !.results = results,
                       !.response = Respond(q.kind, results)]

\* The slot after the awaited fetch of chunk q.k has ended with `out`:
\* purgeChunk either goes round its loop and issues the next fetch, or returns.
AfterFetch(q0, out) ==
    LET q == [q0 EXCEPT !.tried = Append(@, out)]
    IN  IF ShouldRetry(q.attempts, out, q.retryOnTimeout)
        THEN IF LoopGuard(q.attempts)
             THEN [q EXCEPT !.attempts = q.attempts + 1,
                            !.rayIds = PushRayId(q.rayIds, out),
                            !.sent = Append(@, Body(q.k, ChunksOf(q)[q.k]))]
             ELSE AfterChunk(q, ExhaustedResult(PushRayId(q.rayIds, out)))
        ELSE AfterChunk(q, ChunkResult(q.attempts, q.rayIds, out))

\* The slot when purgeCloudflareUrls(urls, config) is called for `kind`, up to
\* its first await.
BeginPurge(kind, urls, retryOnTimeout) ==
    LET q == [Idle EXCEPT !.kind = kind, !.urls = urls,
                          !.retryOnTimeout = retryOnTimeout]
        chunks == ChunksOf(q)
    IN  IF Len(chunks) = 0
        THEN [q EXCEPT !.pc = "done", !.response = Respond(kind, <<>>)]
        ELSE [q EXCEPT !.pc = "fetch", !.k = 1, !.attempts = 1,
                       !.sent = <<Body(1, chunks[1])>>]

\* The slot of an operation that answered without purging.
Answered(kind, response) ==
    [Idle EXCEPT !.kind = kind, !.pc = "done", !.response = response]

(************************ the process environment ************************)
\* readEnv gives a value only for a variable that is set and not blank:
\* zoneId, apiToken and siteUrl say whether CLOUDFLARE_ZONE_ID,
\* CLOUDFLARE_API_TOKEN and NEXT_PUBLIC_SITE_URL have one; the two toggles are
\* readBooleanEnv(...) ?? false.
Envs ==
    [zoneId : BOOLEAN, apiToken : BOOLEAN, enablePurgeOnPublish : BOOLEAN,
     includeProductUrls : BOOLEAN, siteUrl : BOOLEAN]

getCloudflarePurgeConfig ==
    IF ~env.zoneId \/ ~env.apiToken THEN NULL
    ELSE [enablePurgeOnPublish |-> env.enablePurgeOnPublish,
          includeProductUrls |-> env.includeProductUrls]

\* resolveSiteUrl: FALSE when it throws MissingSiteUrlError.  A request always
\* has an origin.
resolveSiteUrl(hasRequest) == hasRequest \/ env.siteUrl

(******************** state.ts: the last purge batch *********************)
\* recordCloudflarePurgeBatch that adds the URLs to the batch it finds.
recordMergingIntoBatch(urls) ==
    [urls |-> Dedup((IF lastBatch = NULL THEN <<>> ELSE lastBatch.urls) \o urls),
     createdAt |-> now]

\* recordCloudflarePurgeBatch that keeps the batch it finds: the first
\* writer wins.
recordKeepingEarlier(urls) ==
    IF lastBatch = NULL THEN [urls |-> Dedup(urls), createdAt |-> now] ELSE lastBatch

recordCloudflarePurgeBatch(urls) == [urls |-> Dedup(urls), createdAt |-> now]

getLastCloudflarePurgeBatch == lastBatch

\* NoPreviousBatch without the test for an empty batch.
NoPreviousBatchNullOnly(batch) == batch = NULL

\* purge-last-batch/route.ts: if (!batch || batch.urls.length === 0)
NoPreviousBatch(batch) == batch = NULL \/ Len(batch.urls) = 0

\* History: the latest call of recordCloudflarePurgeBatch, with its argument
\* and the argument of the call before it (<<>> when it is the first).
Called(urls) ==
    [urls |-> urls, earlier |-> IF lastCall = NULL THEN <<>> ELSE lastCall.urls]

(******************************* actions *********************************)
\* new Set([...buildSitemapUrls(siteUrl), ...additional]), then the product
\* URLs added when the configuration includes them; Array.from of the set.
PurgeUrlSet(config, slugs, additional) ==
    Dedup(buildSitemapUrls \o additional
          \o (IF config.includeProductUrls THEN buildProductUrls(slugs) ELSE <<>>))

\* POST /api/admin/connectivity/cloudflare/purge-sitemaps, up to the first
\* fetch.  slugs and additional are payload.productSlugs and payload.urls after
\* the filter that keeps their strings.
StartPurgeSitemaps(r, slugs, additional) ==
    /\ req[r].pc = "idle"
    /\ LET config == getCloudflarePurgeConfig
       IN  IF config = NULL
           THEN /\ req' = [req EXCEPT ![r] =
                             Answered("purgeSitemaps", ErrorResponse("missing_env"))]
                /\ UNCHANGED <<lastBatch, lastCall, lastPurge>>
           ELSE LET urls == PurgeUrlSet(config, slugs, additional)
                IN  /\ lastBatch' = recordCloudflarePurgeBatch(urls)
                    /\ lastCall' = Called(urls)
                    /\ lastPurge' = [kind |-> "purgeSitemaps", urls |-> urls]
                    /\ req' = [req EXCEPT ![r] = BeginPurge("purgeSitemaps", urls, TRUE)]
    /\ UNCHANGED <<dataVars, authVars, env, now>>

\* POST /api/admin/connectivity/cloudflare/purge-last-batch, up to the first
\* fetch.
StartPurgeLastBatch(r) ==
    /\ req[r].pc = "idle"
    /\ LET config == getCloudflarePurgeConfig
           batch == getLastCloudflarePurgeBatch
       IN  IF config = NULL
           THEN /\ req' = [req EXCEPT ![r] =
                             Answered("purgeLastBatch", ErrorResponse("missing_env"))]
                /\ UNCHANGED lastPurge
           ELSE IF NoPreviousBatch(batch)
           THEN /\ req' = [req EXCEPT ![r] =
                             Answered("purgeLastBatch", ErrorResponse("no_previous_batch"))]
                /\ UNCHANGED lastPurge
           ELSE /\ req' = [req EXCEPT ![r] = BeginPurge("purgeLastBatch", batch.urls, TRUE)]
                /\ lastPurge' = [kind |-> "purgeLastBatch", urls |-> batch.urls]
    /\ UNCHANGED <<dataVars, authVars, env, now, lastBatch, lastCall>>

\* purgeCloudflareEverything(config), up to its first await: one request of
\* the purge-all type under the retry policy of purgeChunk; whether a timeout
\* is retried is not fixed.
purgeCloudflareEverything(retryOnTimeout) ==
    BeginPurge("purgeEverything", <<>>, retryOnTimeout)

\* POST /api/admin/connectivity/cloudflare/purge-everything, up to the first
\* fetch.
StartPurgeEverything(r, retryOnTimeout) ==
    /\ req[r].pc = "idle"
    /\ IF getCloudflarePurgeConfig = NULL
       THEN req' = [req EXCEPT ![r] =
                      Answered("purgeEverything", ErrorResponse("missing_env"))]
       ELSE req' = [req EXCEPT ![r] = purgeCloudflareEverything(retryOnTimeout)]
    /\ UNCHANGED <<dataVars, authVars, env, now, lastBatch, lastCall, lastPurge>>

\* purgeOnPublish({ request, productSlugs, additionalUrls }), up to the first
\* fetch.
StartPurgeOnPublish(r, slugs, additional, hasRequest) ==
    /\ req[r].pc = "idle"
    /\ LET config == getCloudflarePurgeConfig
       IN  IF config = NULL \/ ~config.enablePurgeOnPublish
           THEN /\ req' = [req EXCEPT ![r] = Answered("purgeOnPublish", [returns |-> NULL])]
                /\ UNCHANGED lastPurge
           ELSE IF ~resolveSiteUrl(hasRequest)
           THEN /\ req' = [req EXCEPT ![r] =
                             Answered("purgeOnPublish", [throws |-> "MissingSiteUrlError"])]
                /\ UNCHANGED lastPurge
           ELSE LET urls == PurgeUrlSet(config, slugs, additional)
                IN  /\ req' = [req EXCEPT ![r] = BeginPurge("purgeOnPublish", urls, TRUE)]
                    /\ lastPurge' = [kind |-> "purgeOnPublish", urls |-> urls]
    /\ UNCHANGED <<dataVars, authVars, env, now, lastBatch, lastCall>>

\* purgeCloudflareUrls(urls) called with the configuration of the environment.
CallPurgeCloudflareUrls(r, urls) ==
    /\ req[r].pc = "idle"
    /\ IF getCloudflarePurgeConfig = NULL
       THEN req' = [req EXCEPT ![r] =
                      Answered("purgeCloudflareUrls",
                               [throws |-> "MissingCloudflarePurgeEnvError"])]
       ELSE req' = [req EXCEPT ![r] = BeginPurge("purgeCloudflareUrls", urls, TRUE)]
    /\ UNCHANGED <<dataVars, authVars, env, now, lastBatch, lastCall, lastPurge>>

\* purgeChunk(config, urls, { retryOnTimeout }) with a configuration.
CallPurgeChunk(r, urls, retryOnTimeout) ==
    /\ req[r].pc = "idle"
    /\ getCloudflarePurgeConfig # NULL
    /\ req' = [req EXCEPT ![r] = BeginPurge("purgeChunk", urls, retryOnTimeout)]
    /\ UNCHANGED <<dataVars, authVars, env, now, lastBatch, lastCall, lastPurge>>

\* recordCloudflarePurgeBatch(urls) called by any other module.
CallRecordBatch(urls) ==
    /\ lastBatch' = recordCloudflarePurgeBatch(urls)
    /\ lastCall' = Called(urls)
    /\ lastPurge' = NULL
    /\ UNCHANGED <<dataVars, authVars, env, now, req>>

\* FetchSettles that clears the batch when the attempt has failed.
FetchSettlesClearingBatch(r, out) ==
    /\ req[r].pc = "fetch"
    /\ req' = [req EXCEPT ![r] = AfterFetch(req[r], out)]
    /\ lastBatch' = IF out.type = "response" /\ ResponseOk(out.status) THEN lastBatch ELSE NULL
    /\ UNCHANGED <<dataVars, authVars, env, now, lastCall, lastPurge>>

\* The awaited fetch of slot r ends with `out`.
FetchSettles(r, out) ==
    /\ req[r].pc = "fetch"
    /\ req' = [req EXCEPT ![r] = AfterFetch(req[r], out)]
    /\ UNCHANGED <<dataVars, authVars, env, now, lastBatch, lastCall, lastPurge>>

\* The answer of slot r has gone out; the slot is free again.
Deliver(r) ==
    /\ req[r].pc = "done"
    /\ req' = [req EXCEPT ![r] = Idle]
    /\ UNCHANGED <<dataVars, authVars, env, now, lastBatch, lastCall, lastPurge>>

\* A millisecond passes.
Tick ==
    /\ now < MaxTicks
    /\ now' = now + 1
    /\ UNCHANGED <<dataVars, authVars, env, lastBatch, req, lastCall, lastPurge>>

(***************** cloudflare images: requestCloudflareApi ***************)
\* options.retries ?? 1
DEFAULT_RETRIES == 1

\* The slot of a call of requestCloudflareApi: its locals retries, attempts
\* and lastError, the response it holds while safeParseJson runs (held), what
\* it returned (response), and as history the requests it has issued (sent,
\* the number of the attempt of each) and how they ended (tried).
ApiSlot(retries) ==
    [kind |-> "requestCloudflareApi", pc |-> "fetch", retries |-> retries, attempts |-> 1,
     lastError |-> "undefined", held |-> NULL, sent |-> <<1>>, tried |-> <<>>,
     response |-> NULL]

\* The return after the loop (part_007:159-165).
ApiExhausted(attempts, lastError) ==
    [ok |-> FALSE, status |-> 0, attempts |-> attempts, latencyMs |-> 0, error |-> lastError]

\* while (attempts <= retries) { attempts += 1; ... await fetch(...) }: the
\* slot at the test of the loop.
ApiLoop(q) ==
    IF q.attempts <= q.retries
    THEN [q EXCEPT !.pc = "fetch", !.attempts = q.attempts + 1, !.held = NULL,
                   !.sent = Append(@, q.attempts + 1)]
    ELSE [q EXCEPT !.pc = "done", !.held = NULL,
                   !.response = ApiExhausted(q.attempts, q.lastError)]

\* The slot after the awaited fetch has ended with `out`: with a response the
\* call goes on to safeParseJson, to retry after it or to return; in the catch
\* block it returns when attempts > retries and goes round the loop otherwise.
ApiAfterFetch(q0, out) ==
    LET q == [q0 EXCEPT !.tried = Append(@, out)]
    IN  IF out.type = "response"
        THEN [q EXCEPT !.pc = IF out.status >= 500 /\ q.attempts <= q.retries
                              THEN "parseRetry" ELSE "parse",
                       !.held = out]
        ELSE IF q.attempts > q.retries
        THEN [q EXCEPT !.pc = "done", !.lastError = out.type,
                       !.response = [ok |-> FALSE, status |-> 0, attempts |-> q.attempts,
                                     latencyMs |-> out.latency, error |-> out.type]]
        ELSE ApiLoop([q EXCEPT !.lastError = out.type])

\* The slot after the awaited safeParseJson has given `data` ("undefined"
\* when the body is no JSON): the retry, or the return of the response.
ApiAfterParse(q, data) ==
    IF q.pc = "parseRetry"
    THEN ApiLoop([q EXCEPT !.lastError = data])
    ELSE [q EXCEPT !.pc = "done", !.held = NULL,
                   !.response = [ok |-> ResponseOk(q.held.status), status |-> q.held.status,
                                 data |-> data,
                                 rayId |-> IF q.held.ray = "" THEN "undefined" ELSE q.held.ray,
                                 attempts |-> q.attempts, latencyMs |-> q.held.latency,
                                 error |-> IF ResponseOk(q.held.status)
                                           THEN "undefined" ELSE data]]

\* requestCloudflareApi(config, path, { retries }), up to its first await.
CallRequestCloudflareApi(r, retries) ==
    /\ req[r].pc = "idle"
    /\ req' = [req EXCEPT ![r] =
                 IF 0 <= retries THEN ApiSlot(retries)
                 ELSE [ApiSlot(retries) EXCEPT
                         !.pc = "done", !.attempts = 0, !.sent = <<>>,
                         !.response = ApiExhausted(0, "undefined")]]
    /\ UNCHANGED <<dataVars, authVars, env, now, lastBatch, lastCall, lastPurge>>

\* The awaited fetch of the call in slot r ends with `out`.
ApiFetchSettles(r, out) ==
    /\ req[r].kind = "requestCloudflareApi"
    /\ req[r].pc = "fetch"
    /\ req' = [req EXCEPT ![r] = ApiAfterFetch(req[r], out)]
    /\ UNCHANGED <<dataVars, authVars, env, now, lastBatch, lastCall, lastPurge>>

\* The awaited safeParseJson of the call in slot r gives `data`.
ApiParseSettles(r, data) ==
    /\ req[r].kind = "requestCloudflareApi"
    /\ req[r].pc \in {"parse", "parseRetry"}
    /\ req' = [req EXCEPT ![r] = ApiAfterParse(req[r], data)]
    /\ UNCHANGED <<dataVars, authVars, env, now, lastBatch, lastCall, lastPurge>>

(******************** strings of the session codec ***********************)
\* The printable ASCII characters, in the order of their codes 32 to 126 (the
\* grave accent, which a TLA+ string cannot hold, as the numeral 1096).
Ascii ==
    <<" ", "!", "\"", "#", "$", "%", "&", "'", "(", ")", "*", "+", ",", "-", ".", "/",
      "0", "1", "2", "3", "4", "5", "6", "7", "8", "9", ":", ";", "<", "=", ">", "?",
      "@", "A", "B", "C", "D", "E", "F", "G", "H", "I", "J", "K", "L", "M", "N", "O",
      "P", "Q", "R", "S", "T", "U", "V", "W", "X", "Y", "Z", "[", "\\", "]", "^", "_",
      "1096", "a", "b", "c", "d", "e", "f", "g", "h", "i", "j", "k", "l", "m", "n", "o",
      "p", "q", "r", "s", "t", "u", "v", "w", "x", "y", "z", "{", "|", "}", "~">>

\* String.fromCharCode(b) for one byte; a byte that does not print is written
\* as the numeral of 1000 + b.
fromCharCode(b) == IF b \in 32..126 THEN Ascii[b - 31] ELSE ToString(1000 + b)

\* The characters of a binary string.
Chars == {fromCharCode(b) : b \in 0..255}

\* c.charCodeAt(0)
charCode == [c \in Chars |-> CHOOSE b \in 0..255 : fromCharCode(b) = c]

\* The white space that String.prototype.trim, parseInt and atob skip.
WhiteSpace == {fromCharCode(9), fromCharCode(10), fromCharCode(11), fromCharCode(12),
               fromCharCode(13), " "}

\* A function on 1..n as the sequence of its values.
AsString(f) == SubSeq(f, 1, Len(f))

\* The place of the first character from i on that is not white space.
RECURSIVE FirstKept(_, _)
FirstKept(s, i) ==
    IF i <= Len(s) /\ s[i] \in WhiteSpace THEN FirstKept(s, i + 1) ELSE i

\* The place of the last character up to n that is not white space.
RECURSIVE LastKept(_, _)
LastKept(s, n) ==
    IF n > 0 /\ s[n] \in WhiteSpace THEN LastKept(s, n - 1) ELSE n

\* s.trim()
Trim(s) == SubSeq(s, FirstKept(s, 1), LastKept(s, Len(s)))

\* s.startsWith(prefix)
StartsWith(s, prefix) ==
    Len(s) >= Len(prefix) /\ SubSeq(s, 1, Len(prefix)) = prefix

\* s.split(sep) for a separator of one character
Split(s, sep) ==
    LET P == {i \in 1..Len(s) : s[i] = sep}
        at(k) == IF k = 0 THEN 0
                 ELSE IF k > Cardinality(P) THEN Len(s) + 1
                 ELSE CHOOSE i \in P : Cardinality({j \in P : j < i}) = k - 1
    IN  AsString([k \in 1..(Cardinality(P) + 1) |-> SubSeq(s, at(k - 1) + 1, at(k) - 1)])

\* The k-th variable of an array destructuring; undefined is written <<>>,
\* which the code tells from '' nowhere (both are falsy).
Destructure(parts, k) == IF k <= Len(parts) THEN parts[k] ELSE <<>>

\* `${n}` for an integer n
NumberToString(n) ==
    LET a == IF n < 0 THEN 0 - n ELSE n
        d == CHOOSE k \in 1..9 : (k = 9 \/ a < 10 ^ k) /\ (k = 1 \/ a >= 10 ^ (k - 1))
        digits == AsString([i \in 1..d |-> fromCharCode(48 + ((a \div (10 ^ (d - i))) % 10))])
    IN  IF n < 0 THEN <<"-">> \o digits ELSE digits

NaN == [nan |-> TRUE, value |-> 0]

Digit == {"0", "1", "2", "3", "4", "5", "6", "7", "8", "9"}

RECURSIVE DigitsValue(_, _, _, _)
DigitsValue(s, i, last, acc) ==
    IF i > last THEN acc
    ELSE DigitsValue(s, i + 1, last, (acc * 10) + (charCode[s[i]] - 48))

\* The value of the digits that begin at first, signed as the character at
\* start says; NaN without a digit.
ParseDigits(s, start, first, last) ==
    IF last < first THEN NaN
    ELSE [nan |-> FALSE,
          value |-> IF start < first /\ s[start] = "-" THEN 0 - DigitsValue(s, first, last, 0)
                    ELSE DigitsValue(s, first, last, 0)]

\* The place of the last of the digits that begin at first.
LastDigit(s, first) ==
    IF \A i \in first..Len(s) : s[i] \in Digit THEN Len(s)
    ELSE (CHOOSE i \in first..Len(s) : s[i] \notin Digit /\ \A j \in first..(i - 1) : s[j] \in Digit) - 1

ParseSigned(s, start, first) == ParseDigits(s, start, first, LastDigit(s, first))

ParseFrom(s, start) ==
    ParseSigned(s, start, IF start <= Len(s) /\ s[start] \in {"-", "+"} THEN start + 1 ELSE start)

\* Number.parseInt(s, 10): white space, a sign, then the digits up to the
\* first character that is not one; NaN without a digit.
parseInt(s) == ParseFrom(s, FirstKept(s, 1))

\* s.replace(/c/g, d)
ReplaceAll(s, c, d) == AsString([i \in 1..Len(s) |-> IF s[i] = c THEN d ELSE s[i]])

\* The length of the first n characters of s without the '=' at their end.
RECURSIVE UnpaddedLen(_, _)
UnpaddedLen(s, n) ==
    IF n > 0 /\ s[n] = "=" THEN UnpaddedLen(s, n - 1) ELSE n

\* s.replace(/=+$/u, '')
StripPadding(s) == SubSeq(s, 1, UnpaddedLen(s, Len(s)))

\* s.padEnd(n, '=')
PadEnd(s, n) ==
    AsString([i \in 1..(IF n > Len(s) THEN n ELSE Len(s)) |-> IF i <= Len(s) THEN s[i] ELSE "="])

\* The base64 alphabet: the character of a sextet.
Base64Char(v) ==
    IF v < 26 THEN fromCharCode(65 + v)
    ELSE IF v < 52 THEN fromCharCode(97 + v - 26)
    ELSE IF v < 62 THEN fromCharCode(48 + v - 52)
    ELSE IF v = 62 THEN "+" ELSE "/"

Base64Alphabet == {Base64Char(v) : v \in 0..63}

\* The sextet of a character of the alphabet.
Sextet == [c \in Base64Alphabet |-> CHOOSE v \in 0..63 : Base64Char(v) = c]

\* The code of the i-th character of s, 0 past its end.
ByteAt(s, i) == IF i <= Len(s) THEN charCode[s[i]] ELSE 0

\* The g-th three bytes of s as one number of 24 bits.
Word24(s, g) == (ByteAt(s, 3 * g - 2) * 65536) + (ByteAt(s, 3 * g - 1) * 256) + ByteAt(s, 3 * g)

\* The k-th character of btoa(s): sextet p of the group, '=' past the bytes.
BtoaChar(s, g, p) ==
    IF p >= 2 /\ 3 * g - 3 + p > Len(s) THEN "="
    ELSE Base64Char((Word24(s, g) \div (64 ^ (3 - p))) % 64)

\* btoa(s): three bytes become four characters, the last group is padded.
btoa(s) ==
    AsString([k \in 1..(4 * ((Len(s) + 2) \div 3)) |-> BtoaChar(s, (k + 3) \div 4, (k - 1) % 4)])

\* What a call that may throw gives.
Returned(value) == [ok |-> TRUE, value |-> value]
Threw == [ok |-> FALSE, value |-> <<>>]

\* The sextet of the i-th character of body, 0 past its end.
SextetAt(body, i) == IF i <= Len(body) THEN Sextet[body[i]] ELSE 0

\* The g-th four characters of body as one number of 24 bits.
Sextets24(body, g) ==
    (SextetAt(body, 4 * g - 3) * 262144) + (SextetAt(body, 4 * g - 2) * 4096)
    + (SextetAt(body, 4 * g - 1) * 64) + SextetAt(body, 4 * g)

\* Byte p of the g-th group of body.
AtobByte(body, g, p) == (Sextets24(body, g) \div (256 ^ (2 - p))) % 256

\* The bytes of the characters of the alphabet; the bits left over in the
\* last group are dropped.
AtobBody(body) ==
    IF Len(body) % 4 = 1 \/ \E i \in 1..Len(body) : body[i] \notin Base64Alphabet
    THEN Threw
    ELSE Returned(AsString([j \in 1..((Len(body) * 6) \div 8) |->
                     fromCharCode(AtobByte(body, (j + 2) \div 3, (j - 1) % 3))]))

\* The '=' that end a string of a length that is a multiple of four.
Pads(clean) ==
    IF Len(clean) % 4 = 0 /\ Len(clean) > 0 /\ clean[Len(clean)] = "="
    THEN (IF clean[Len(clean) - 1] = "=" THEN 2 ELSE 1)
    ELSE 0

AtobClean(clean) == AtobBody(SubSeq(clean, 1, Len(clean) - Pads(clean)))

\* atob(data): white space is dropped, then one or two '=' at the end of a
\* length that is a multiple of four; a length of 4k+1 or a character outside
\* the alphabet throws.
atob(data) == AtobClean(SelectSeq(data, LAMBDA c : c \notin WhiteSpace))

(********************** lib/admin/auth: the codec ************************)
ADMIN_SESSION_TTL_SECONDS == 60 * 60 * 12

\* randomNonce: new Uint8Array(16)
NONCE_BYTES == 16

\* The bytes of an HMAC-SHA-256 signature.
SIGNATURE_BYTES == 32

\* output += byte.toString(16).padStart(2, '0'), over the bytes
ToHex(bytes) ==
    LET digit(v) == IF v < 10 THEN fromCharCode(48 + v) ELSE fromCharCode(87 + v)
    IN  AsString([k \in 1..(2 * Len(bytes)) |->
                     IF k % 2 = 1 THEN digit(bytes[(k + 1) \div 2] \div 16)
                     ELSE digit(bytes[k \div 2] % 16)])

bufferToHex(buffer) == ToHex(buffer)

\* randomNonce() when getRandomValues fills the array as given
randomNonce(array) == ToHex(array)

\* encoder.encode(s): the UTF-8 bytes of a string of characters below 256,
\* here of its characters lo to hi.
RECURSIVE encodeRange(_, _, _)
encodeRange(s, lo, hi) ==
    IF lo > hi THEN <<>>
    ELSE IF lo = hi
    THEN LET c == charCode[s[lo]]
         IN  IF c < 128 THEN <<c>> ELSE <<192 + (c \div 64), 128 + (c % 64)>>
    ELSE LET mid == (lo + hi) \div 2
         IN  encodeRange(s, lo, mid) \o encodeRange(s, mid + 1, hi)

encode(s) == encodeRange(s, 1, Len(s))

\* b to the power e, modulo p.
RECURSIVE PowMod(_, _, _)
PowMod(b, e, p) ==
    IF e = 0 THEN 1
    ELSE LET half == PowMod(b, e \div 2, p)
         IN  (((half * half) % p) * (IF e % 2 = 1 THEN b ELSE 1)) % p

\* The bytes lo to hi as the digits of a number in base 131, modulo p.
RECURSIVE Poly(_, _, _, _)
Poly(bytes, lo, hi, p) ==
    IF lo > hi THEN 0
    ELSE IF lo = hi THEN (bytes[lo] + 1) % p
    ELSE LET mid == (lo + hi) \div 2
         IN  ((Poly(bytes, lo, mid, p) * PowMod(131, hi - mid, p))
              + Poly(bytes, mid + 1, hi, p)) % p

\* crypto.subtle.sign('HMAC', key, message): a keyed digest of 32 bytes.  It
\* stands for HMAC-SHA-256 as a function of the key and the message that is
\* deterministic and has no collision among the keys and messages of the
\* model; the keys of the model are not empty and hold no NUL.
Hmac(key, message) ==
    LET input == key \o <<256>> \o message
        a == Poly(input, 1, Len(input), 32749)
        b == Poly(input, 1, Len(input), 32719)
    IN  AsString([i \in 1..SIGNATURE_BYTES |->
            (((a * i) + (b * (SIGNATURE_BYTES + 1 - i)) + (i * i)) % 32749) % 256])

\* signPayload that forgets the key.
signPayloadUnkeyed(payload, secret) == bufferToHex(Hmac(<<>>, encode(payload)))

signPayload(payload, secret) == bufferToHex(Hmac(encode(secret), encode(payload)))

toBase64Url(value) ==
    StripPadding(ReplaceAll(ReplaceAll(btoa(value), "+", "-"), "/", "_"))

fromBase64Url(value) ==
    LET normalized == ReplaceAll(ReplaceAll(value, "-", "+"), "_", "/")
        padded == PadEnd(normalized, ((Len(normalized) + 3) \div 4) * 4)
    IN  atob(padded)

\* result |= expected.charCodeAt(i) ^ provided.charCodeAt(i) stays 0 exactly
\* when the codes agree at every i.
timingSafeEqual(expected, provided) ==
    IF Len(expected) # Len(provided) THEN FALSE
    ELSE \A i \in 1..Len(expected) : charCode[expected[i]] = charCode[provided[i]]

\* An issue that stamps the token a millisecond late.
issueTokenStampedLate(password, issuedAt, array) ==
    toBase64Url(
        (NumberToString(issuedAt + 1) \o <<":">> \o randomNonce(array)) \o <<":">>
        \o signPayload(NumberToString(issuedAt + 1) \o <<":">> \o randomNonce(array),
                        password))

issueAdminSessionToken(password, issuedAt, array) ==
    LET nonce == randomNonce(array)
        payload == NumberToString(issuedAt) \o <<":">> \o nonce
        signature == signPayload(payload, password)
        raw == payload \o <<":">> \o signature
    IN  toBase64Url(raw)

\* The age test with the last millisecond of the TTL refused.
SessionExpiredAtTtl(age) == age < 0 \/ age >= ADMIN_SESSION_TTL_SECONDS * 1000

\* if (age < 0 || age > ADMIN_SESSION_TTL_SECONDS * 1000) return false
SessionExpired(age) == age < 0 \/ age > ADMIN_SESSION_TTL_SECONDS * 1000

\* const age = now - issuedAt, with the issuedAt that parseInt gave
VerifyAge(issuedAt, t) ==
    IF issuedAt.nan THEN FALSE
    ELSE ~SessionExpired(t - issuedAt.value)

\* From the test of the three fields on.
VerifyFields(issuedAtRaw, nonce, signature, password, t) ==
    IF issuedAtRaw = <<>> \/ nonce = <<>> \/ signature = <<>> THEN FALSE
    ELSE IF ~timingSafeEqual(signPayload(issuedAtRaw \o <<":">> \o nonce, password), signature)
    THEN FALSE
    ELSE VerifyAge(parseInt(issuedAtRaw), t)

\* const [issuedAtRaw, nonce, signature] = parts
VerifyParts(parts, password, t) ==
    VerifyFields(Destructure(parts, 1), Destructure(parts, 2), Destructure(parts, 3),
                 password, t)

\* From the decoded token on; a throw of the decoding is caught.
VerifyDecoded(decoded, password, t) ==
    IF ~decoded.ok THEN FALSE
    ELSE VerifyParts(Split(decoded.value, ":"), password, t)

verifyAdminSessionToken(token, password, t) ==
    VerifyDecoded(fromBase64Url(token), password, t)

(***************************** middleware ********************************)
ADMIN_PATH == <<"/", "a", "d", "m", "i", "n">>
ADMIN_PREFIX == ADMIN_PATH \o <<"/">>
API_ADMIN_PREFIX == <<"/", "a", "p", "i">> \o ADMIN_PATH
BEARER == <<"B", "e", "a", "r", "e", "r", " ">>
BASIC == <<"B", "a", "s", "i", "c", " ">>
ADMIN_USER == <<"a", "d", "m", "i", "n">>

needsAdminAuth(pathname) ==
    \/ pathname = ADMIN_PATH
    \/ StartsWith(pathname, ADMIN_PREFIX)
    \/ StartsWith(pathname, API_ADMIN_PREFIX)

\* readAdminPassword(); null is written <<>>, a value the function never
\* returns as a string.
readAdminPassword ==
    IF ~adminPassword.defined THEN <<>> ELSE Trim(adminPassword.value)

\* getBearerToken(header); null is written <<>> (the caller tests truthiness)
getBearerToken(header) ==
    IF header = <<>> THEN <<>>
    ELSE IF ~StartsWith(header, BEARER) THEN <<>>
    ELSE Trim(SubSeq(header, Len(BEARER) + 1, Len(header)))

decodeBase64(input) == atob(input)

\* indexOf(':') and the two slices
SplitCredentials(decoded) ==
    IF \A i \in 1..Len(decoded) : decoded[i] # ":"
    THEN [ok |-> FALSE, user |-> <<>>, password |-> <<>>]
    ELSE [ok |-> TRUE,
          user |-> Split(decoded, ":")[1],
          password |-> SubSeq(decoded, Len(Split(decoded, ":")[1]) + 2, Len(decoded))]

DecodedCredentials(decoded) ==
    IF ~decoded.ok \/ decoded.value = <<>>
    THEN [ok |-> FALSE, user |-> <<>>, password |-> <<>>]
    ELSE SplitCredentials(decoded.value)

EncodedCredentials(encoded) ==
    IF encoded = <<>> THEN [ok |-> FALSE, user |-> <<>>, password |-> <<>>]
    ELSE DecodedCredentials(decodeBase64(encoded))

parseBasicCredentials(header) ==
    EncodedCredentials(Trim(SubSeq(header, Len(BASIC) + 1, Len(header))))

\* The responses of the middleware: the status, the body, the value of the
\* session cookie it sets (<<>>: none), whether it deletes the cookie, and
\* the WWW-Authenticate and cache-control headers ("": not set).
WWW_AUTHENTICATE == "Basic realm=\"Virtual Product Pages Admin\", charset=\"UTF-8\""
NextResponse ==
    [status |-> 200, body |-> "next", setCookie |-> <<>>, deleteCookie |-> FALSE,
     wwwAuthenticate |-> "", cacheControl |-> ""]
unauthorizedResponse(message) ==
    [status |-> 401, body |-> message, setCookie |-> <<>>, deleteCookie |-> FALSE,
     wwwAuthenticate |-> WWW_AUTHENTICATE, cacheControl |-> ""]

\* A Basic branch that checks the password alone.
BasicResponseAnyUser(credentials, password, t, array) ==
    IF ~credentials.ok THEN unauthorizedResponse("Invalid credentials")
    ELSE IF credentials.password # password
    THEN unauthorizedResponse("Invalid credentials")
    ELSE [NextResponse EXCEPT !.setCookie = issueAdminSessionToken(password, t, array),
                              !.cacheControl = "no-store"]

\* The Basic branch, with the credentials parsed.
BasicResponse(credentials, password, t, array) ==
    IF ~credentials.ok THEN unauthorizedResponse("Invalid credentials")
    ELSE IF credentials.user # ADMIN_USER \/ credentials.password # password
    THEN unauthorizedResponse("Invalid credentials")
    ELSE [NextResponse EXCEPT !.setCookie = issueAdminSessionToken(password, t, array),
                              !.cacheControl = "no-store"]

\* The middleware from the reading of the Authorization header on.
AuthenticateHeader(request, password, bearerToken, t, array) ==
    IF bearerToken # <<>> /\ verifyAdminSessionToken(bearerToken, password, t)
    THEN NextResponse
    ELSE IF StartsWith(request.authorization, BASIC)
    THEN BasicResponse(parseBasicCredentials(request.authorization), password, t, array)
    ELSE [unauthorizedResponse("Authentication required") EXCEPT !.deleteCookie = TRUE]

\* A middleware that stops at the first credential shown.
AuthenticateFirstShown(request, password, bearerToken, t, array) ==
    IF request.cookie # <<>>
    THEN IF verifyAdminSessionToken(request.cookie, password, t)
         THEN NextResponse ELSE unauthorizedResponse("Authentication required")
    ELSE AuthenticateHeader(request, password, bearerToken, t, array)

\* The middleware from the reading of the cookie on.
Authenticate(request, password, bearerToken, t, array) ==
    IF request.cookie # <<>> /\ verifyAdminSessionToken(request.cookie, password, t)
    THEN NextResponse
    ELSE AuthenticateHeader(request, password, bearerToken, t, array)

\* middleware(request) at the time t, with the nonce drawn as given
middleware(request, t, array) ==
    IF ~needsAdminAuth(request.pathname) THEN NextResponse
    ELSE IF readAdminPassword = <<>>
    THEN [status |-> 503, body |-> "Admin password not configured",
          setCookie |-> <<>>, deleteCookie |-> FALSE,
          wwwAuthenticate |-> "", cacheControl |-> ""]
    ELSE Authenticate(request, readAdminPassword,
                      getBearerToken(request.authorization), t, array)

\* A token with what is known of its making.
Token(value, secret, issuedAt) ==
    [value |-> value, secret |-> secret, issuedAt |-> issuedAt]

\* The Authorization header of a client's choice.
HeaderText(h) ==
    IF h.kind = "bearer" THEN BEARER \o bearer.value
    ELSE IF h.kind = "basic" THEN BASIC \o btoa(h.user \o <<":">> \o h.password)
    ELSE <<>>

\* A script calls issueAdminSessionToken(s, t) and keeps the token.
CallIssue(s, t, array) ==
    /\ verdict = NULL
    /\ bearer' = Token(issueAdminSessionToken(s, t, array), s, t)
    /\ UNCHANGED <<adminPassword, cookie, verdict, purgeVars, dataVars>>

\* A call of verifyAdminSessionToken(token, s, t) on a token in hand.
CallVerify(tok, s, t) ==
    /\ verdict = NULL
    /\ tok # NULL
    /\ verdict' = [op |-> "verify", token |-> tok, secret |-> s, now |-> t,
                   result |-> verifyAdminSessionToken(tok.value, s, t)]
    /\ UNCHANGED <<adminPassword, cookie, bearer, purgeVars, dataVars>>

\* What a client makes of the decoded string of a token it holds: a fourth
\* part appended, the signature cut off, the issuedAt part alone.
EXTRA == <<"e", "x", "t", "r", "a">>
AlteredParts(parts, how) ==
    CASE how = "extra" -> parts[1] \o <<":">> \o parts[2] \o <<":">> \o parts[3]
                              \o <<":">> \o EXTRA
      [] how = "nosignature" -> parts[1] \o <<":">> \o parts[2]
      [] how = "issuedAt" -> parts[1]
Alter(token, how) ==
    toBase64Url(AlteredParts(Split(fromBase64Url(token).value, ":"), how))
PartCount(token) == Len(Split(fromBase64Url(token).value, ":"))

\* verifyAdminSessionToken called on the altered form of a token issued
\* earlier.
VerifyPresented(tok, how, presented, s, t) ==
    verdict' = [op |-> "verifyAltered", token |-> tok, how |-> how,
                presented |-> presented, parts |-> PartCount(presented),
                secret |-> s, now |-> t,
                result |-> verifyAdminSessionToken(presented, s, t)]
CallVerifyAltered(tok, how, s, t) ==
    /\ verdict = NULL
    /\ tok # NULL
    /\ \E presented \in {Alter(tok.value, how)} :
           VerifyPresented(tok, how, presented, s, t)
    /\ UNCHANGED <<adminPassword, cookie, bearer, purgeVars, dataVars>>

\* A call of verifyAdminSessionToken(token, s, t) on a string of the caller's
\* making.
CallVerifyString(token, s, t) ==
    /\ verdict = NULL
    /\ verdict' = [op |-> "verifyString", presented |-> token, secret |-> s, now |-> t,
                   result |-> verifyAdminSessionToken(token, s, t)]
    /\ UNCHANGED <<adminPassword, cookie, bearer, purgeVars, dataVars>>

\* The middleware handles a request; the browser keeps the cookie the
\* response sets and drops the one it deletes.
HandleRequest(pathname, withCookie, h, array) ==
    LET sent == IF withCookie THEN cookie ELSE NULL
        request == [pathname |-> pathname,
                    cookie |-> IF sent = NULL THEN <<>> ELSE sent.value,
                    authorization |-> HeaderText(h)]
    IN  /\ verdict = NULL
        /\ h.kind = "bearer" => bearer # NULL
        /\ \E response \in {middleware(request, now, array)} :
             /\ verdict' = [op |-> "middleware", request |-> request, response |-> response,
                            password |-> readAdminPassword, now |-> now,
                            cookie |-> sent,
                            bearer |-> IF h.kind = "bearer" THEN bearer ELSE NULL,
                            basic |-> h.kind = "basic", header |-> h]
             /\ cookie' = IF response.setCookie # <<>>
                          THEN Token(response.setCookie, readAdminPassword, now)
                          ELSE IF response.deleteCookie THEN NULL ELSE cookie
        /\ UNCHANGED <<adminPassword, bearer, purgeVars, dataVars>>

\* The caller has its answer.
Return ==
    /\ verdict # NULL
    /\ verdict' = NULL
    /\ UNCHANGED <<adminPassword, cookie, bearer, purgeVars, dataVars>>

\* The process is started again with another ADMIN_PASSWORD.
SetAdminPassword(p) ==
    /\ verdict = NULL
    /\ p # adminPassword
    /\ adminPassword' = p
    /\ UNCHANGED <<cookie, bearer, verdict, purgeVars, dataVars>>

\* Date.now() moves on to t.
ClockAdvances(t) ==
    /\ verdict = NULL
    /\ t > now
    /\ now' = t
    /\ UNCHANGED <<dataVars, authVars, env, lastBatch, req, lastCall, lastPurge>>

(************************ lib/server/tidb/errors **************************)
\* The string literals of the module, character by character.
TRUE_TEXT ==
    <<"t", "r", "u", "e">>
FALSE_TEXT ==
    <<"f", "a", "l", "s", "e">>
OBJECT_TEXT ==
    <<"[", "o", "b", "j", "e", "c", "t", " ", "O", "b", "j", "e", "c", "t", "]">>
TIMEOUT ==
    <<"t", "i", "m", "e", "o", "u", "t">>
TIMED_OUT ==
    <<"t", "i", "m", "e", "d", " ", "o", "u", "t">>
CONNECTION_LOST ==
    <<"c", "o", "n", "n", "e", "c", "t", "i", "o", "n", " ", "l", "o", "s", "t">>
ACCESS_DENIED ==
    <<"a", "c", "c", "e", "s", "s", " ", "d", "e", "n", "i", "e", "d">>
PERMISSION ==
    <<"p", "e", "r", "m", "i", "s", "s", "i", "o", "n">>
AUTHENTICATION ==
    <<"a", "u", "t", "h", "e", "n", "t", "i", "c", "a", "t", "i", "o", "n">>
ETIMEDOUT ==
    <<"E", "T", "I", "M", "E", "D", "O", "U", "T">>
PROTOCOL_SEQUENCE_TIMEOUT ==
    <<"P", "R", "O", "T", "O", "C", "O", "L", "_", "S", "E", "Q", "U", "E", "N", "C", "E", "_", "T", "I", "M", "E", "O", "U", "T">>
PROTOCOL_CONNECTION_LOST ==
    <<"P", "R", "O", "T", "O", "C", "O", "L", "_", "C", "O", "N", "N", "E", "C", "T", "I", "O", "N", "_", "L", "O", "S", "T">>
ECONNRESET ==
    <<"E", "C", "O", "N", "N", "R", "E", "S", "E", "T">>
ER_ACCESS_DENIED_ERROR ==
    <<"E", "R", "_", "A", "C", "C", "E", "S", "S", "_", "D", "E", "N", "I", "E", "D", "_", "E", "R", "R", "O", "R">>
ER_DBACCESS_DENIED_ERROR ==
    <<"E", "R", "_", "D", "B", "A", "C", "C", "E", "S", "S", "_", "D", "E", "N", "I", "E", "D", "_", "E", "R", "R", "O", "R">>
ER_PREFIX ==
    <<"E", "R", "_">>
ER_PARSE_ERROR ==
    <<"E", "R", "_", "P", "A", "R", "S", "E", "_", "E", "R", "R", "O", "R">>
MYSQL_ERROR ==
    <<"M", "y", "S", "Q", "L", " ", "e", "r", "r", "o", "r">>
UNKNOWN_DATABASE_ERROR ==
    <<"U", "n", "k", "n", "o", "w", "n", " ", "d", "a", "t", "a", "b", "a", "s", "e", " ", "e", "r", "r", "o", "r">>
PRISMA_ENGINE_PANIC ==
    <<"P", "r", "i", "s", "m", "a", " ", "e", "n", "g", "i", "n", "e", " ", "p", "a", "n", "i", "c">>

\* JavaScript values as the classifier sees them: the type typeof gives (null
\* apart) and the text of the value.
Undefined == [t |-> "undefined", v |-> <<>>]
JsNull == [t |-> "null", v |-> <<>>]
Str(text) == [t |-> "string", v |-> text]
Num(digits) == [t |-> "number", v |-> digits]
Bool(b) == [t |-> "boolean", v |-> IF b THEN TRUE_TEXT ELSE FALSE_TEXT]

Nullish(x) == x.t \in {"undefined", "null"}
\* !x is false
Truthy(x) ==
    CASE x.t \in {"undefined", "null"} -> FALSE
      [] x.t = "string" -> x.v # <<>>
      [] x.t = "number" -> x.v # <<"0">>
      [] x.t = "boolean" -> x.v = TRUE_TEXT
      [] OTHER -> TRUE

\* String.prototype.toLowerCase and String.prototype.includes
LowerChar(c) == IF charCode[c] \in 65..90 THEN fromCharCode(charCode[c] + 32) ELSE c
toLowerCase(text) == AsString([i \in 1..Len(text) |-> LowerChar(text[i])])
includes(text, sub) ==
    \E i \in 1..(Len(text) - Len(sub) + 1) : SubSeq(text, i, i + Len(sub) - 1) = sub

\* An error value: a primitive (its value in prim) or an object of a class
\* with the properties the classifier reads (prim is Undefined).
Primitive(value) ==
    [class |-> "primitive", prim |-> value, code |-> Undefined, sqlState |-> Undefined,
     fatal |-> Undefined, message |-> Undefined, metaSqlState |-> Undefined]
ErrorObject(class, code, sqlState, fatal, message) ==
    [class |-> class, prim |-> Undefined, code |-> code, sqlState |-> sqlState,
     fatal |-> fatal, message |-> message, metaSqlState |-> Undefined]
IsObject(error) == error.class # "primitive"

\* String(error)
StringOf(error) ==
    IF IsObject(error) THEN Str(OBJECT_TEXT) ELSE Str(error.prim.v)

\* What a call gives: a DbErrorInfo returned, or an exception.
DbErrorInfo(code, message, sqlState) ==
    [ok |-> TRUE, code |-> code, message |-> message, sqlState |-> sqlState]
DbThrew == [ok |-> FALSE, code |-> "", message |-> Undefined, sqlState |-> Undefined]

\* categorizeByMessage(message, meta) from the lowered message on
CategorizeLower(lower, message, code, sqlState) ==
    IF includes(lower, TIMEOUT) \/ includes(lower, TIMED_OUT) \/ includes(lower, CONNECTION_LOST)
    THEN DbErrorInfo("timeout", message, Undefined)
    ELSE IF includes(lower, ACCESS_DENIED) \/ includes(lower, PERMISSION)
    THEN DbErrorInfo("auth_failed", message, Undefined)
    ELSE IF Truthy(sqlState) \/ code = Str(ER_PARSE_ERROR)
    THEN DbErrorInfo("sql_error", message, sqlState)
    ELSE DbErrorInfo("unknown", message, Undefined)

\* categorizeByMessage(message, meta), meta given by its code and sqlState;
\* message.toLowerCase() throws on a message that is no string.
categorizeByMessage(message, code, sqlState) ==
    IF message.t # "string" THEN DbThrew
    ELSE CategorizeLower(toLowerCase(message.v), message, code, sqlState)

isMysqlError(error) ==
    /\ IsObject(error)
    /\ \/ error.code.t = "string"
       \/ error.sqlState.t = "string"
       \/ error.fatal.t = "boolean"

\* normalizeMysqlError from the lowered message on; code.startsWith throws
\* on a truthy code that is no string.
NormalizeLower(lower, message, code, sqlState) ==
    IF \/ code \in {Str(ETIMEDOUT), Str(PROTOCOL_SEQUENCE_TIMEOUT),
                    Str(PROTOCOL_CONNECTION_LOST), Str(ECONNRESET)}
       \/ includes(lower, TIMEOUT)
       \/ includes(lower, TIMED_OUT)
    THEN DbErrorInfo("timeout", message, sqlState)
    ELSE IF \/ code \in {Str(ER_ACCESS_DENIED_ERROR), Str(ER_DBACCESS_DENIED_ERROR)}
            \/ includes(lower, ACCESS_DENIED)
            \/ includes(lower, PERMISSION)
    THEN DbErrorInfo("auth_failed", message, sqlState)
    ELSE IF Truthy(code) /\ code.t # "string" THEN DbThrew
    ELSE IF Truthy(code) /\ StartsWith(code.v, ER_PREFIX)
    THEN DbErrorInfo("sql_error", message, sqlState)
    ELSE categorizeByMessage(message, code, sqlState)

\* normalizeMysqlError with message and code defaulted
NormalizeDefaulted(message, code, sqlState) ==
    IF message.t # "string" THEN DbThrew
    ELSE NormalizeLower(toLowerCase(message.v), message, code, sqlState)

normalizeMysqlError(error) ==
    NormalizeDefaulted(IF Nullish(error.message) THEN Str(MYSQL_ERROR) ELSE error.message,
                       IF Nullish(error.code) THEN Str(<<>>) ELSE error.code,
                       error.sqlState)

InitializationLower(lower, message) ==
    IF includes(lower, ACCESS_DENIED) \/ includes(lower, AUTHENTICATION)
    THEN DbErrorInfo("auth_failed", message, Undefined)
    ELSE IF includes(lower, TIMEOUT) \/ includes(lower, TIMED_OUT)
    THEN DbErrorInfo("timeout", message, Undefined)
    ELSE DbErrorInfo("unknown", message, Undefined)

normalizeInitializationError(error) ==
    IF error.message.t # "string" THEN DbThrew
    ELSE InitializationLower(toLowerCase(error.message.v), error.message)

\* toDbErrorInfo after the tests of the classes
ClassifyOther(error) ==
    categorizeByMessage(IF Nullish(error.message) THEN StringOf(error) ELSE error.message,
                        error.code, error.sqlState)

toDbErrorInfo(error) ==
    IF ~IsObject(error) /\ ~Truthy(error.prim)
    THEN DbErrorInfo("unknown", Str(UNKNOWN_DATABASE_ERROR), Undefined)
    ELSE IF isMysqlError(error) THEN normalizeMysqlError(error)
    ELSE IF error.class = "PrismaClientInitializationError"
    THEN normalizeInitializationError(error)
    ELSE IF error.class = "PrismaClientKnownRequestError"
    THEN DbErrorInfo("sql_error", error.message, error.metaSqlState)
    ELSE IF error.class = "PrismaClientUnknownRequestError"
    THEN categorizeByMessage(error.message, Undefined, Undefined)
    ELSE IF error.class = "PrismaClientRustPanicError"
    THEN DbErrorInfo("unknown", Str(PRISMA_ENGINE_PANIC), Undefined)
    ELSE IF error.class = "PrismaClientValidationError"
    THEN DbErrorInfo("sql_error", error.message, Undefined)
    ELSE ClassifyOther(error)

\* A caller hands an error value to toDbErrorInfo.
CallToDbErrorInfo(error) ==
    /\ classified' = [error |-> error, outcome |-> toDbErrorInfo(error)]
    /\ UNCHANGED <<authVars, purgeVars, tx, rowVars>>

(************************ lib/server/tidb/mysql ***************************)
\* The callers of the database layer that run side by side.
Callers == {1, 2}

\* The locals and the connection of one call of runInTransaction: where the
\* call stands, whether it has a connection, what callback returned, the calls
\* of commit, rollback and release made on the connection, the error caught
\* and what the caller got.
TxIdle ==
    [pc |-> "idle", acquired |-> FALSE, begun |-> FALSE, callbackReturned |-> FALSE,
     result |-> 0, commits |-> 0, committed |-> FALSE, rollbacks |-> 0,
     rollbackFailed |-> FALSE, releases |-> 0, error |-> "", thrown |-> ""]
TxOver(c) == tx[c].pc \in {"idle", "returned", "threw"}

\* runInTransaction(callback) up to the first await; getTiDbPool throws
\* without a configuration.
CallRunInTransaction(c, configured) ==
    /\ TxOver(c)
    /\ tx' = [tx EXCEPT ![c] =
                IF configured THEN [TxIdle EXCEPT !.pc = "getConnection"]
                ELSE [TxIdle EXCEPT !.pc = "threw", !.thrown = "getTiDbPool"]]

\* await pool.getConnection()
GetConnectionSettles(c, ok) ==
    /\ tx[c].pc = "getConnection"
    /\ tx' = [tx EXCEPT ![c] =
                IF ok THEN [@ EXCEPT !.pc = "beginTransaction", !.acquired = TRUE]
                ELSE [@ EXCEPT !.pc = "threw", !.thrown = "getConnection"]]

\* await connection.beginTransaction()
BeginTransactionSettles(c, ok) ==
    /\ tx[c].pc = "beginTransaction"
    /\ tx' = [tx EXCEPT ![c] =
                IF ok THEN [@ EXCEPT !.pc = "callback", !.begun = TRUE]
                ELSE [@ EXCEPT !.pc = "rollback", !.error = "beginTransaction"]]

\* The callback has returned result: commit is called.
CallbackReturns(run, result) ==
    [run EXCEPT !.pc = "commit", !.callbackReturned = TRUE, !.result = result]
\* The callback has thrown error: rollback is called.
CallbackThrows(run, error) ==
    [run EXCEPT !.pc = "rollback", !.error = error]

\* await callback(connection), for a callback that does nothing else
CallbackSettles(c, ok, result) ==
    /\ tx[c].pc = "callback"
    /\ tx' = [tx EXCEPT ![c] =
                IF ok THEN CallbackReturns(@, result) ELSE CallbackThrows(@, "callback")]

\* await connection.commit(); on success return result, through the finally
CommitSettles(c, ok) ==
    /\ tx[c].pc = "commit"
    /\ tx' = [tx EXCEPT ![c] =
                IF ok THEN [@ EXCEPT !.pc = "returned", !.commits = @ + 1, !.committed = TRUE,
                                     !.releases = @ + 1]
                ELSE [@ EXCEPT !.pc = "rollback", !.commits = @ + 1, !.error = "commit"]]

\* A catch block that lets the error of a failed rollback out.
RolledBackThrowingLast(run, ok) ==
    [run EXCEPT !.pc = "threw", !.rollbacks = @ + 1, !.rollbackFailed = ~ok,
                !.thrown = IF ok THEN run.error ELSE "rollback", !.releases = @ + 1]

\* await connection.rollback() in the catch block, a failure logged; then
\* throw error, through the finally
RolledBack(run, ok) ==
    [run EXCEPT !.pc = "threw", !.rollbacks = @ + 1, !.rollbackFailed = ~ok,
                !.thrown = run.error, !.releases = @ + 1]

RollbackSettles(c, ok) ==
    /\ tx[c].pc = "rollback"
    /\ tx' = [tx EXCEPT ![c] = RolledBack(@, ok)]

(********************* lib/server/tidb/products ***************************)
\* The string literals of the update modules and their endpoints, character
\* by character.
FIELD ==
    <<"F", "i", "e", "l", "d", " ">>
FIELD_WORD ==
    <<"F", "i", "e", "l", "d">>
CATEGORY_WORD ==
    <<"C", "a", "t", "e", "g", "o", "r", "y">>
EXCEEDS ==
    <<" ", "e", "x", "c", "e", "e", "d", "s", " ", "m", "a", "x", "i", "m", "u", "m", " ",
      "l", "e", "n", "g", "t", "h", " ", "o", "f", " ">>
CHARACTERS ==
    <<" ", "c", "h", "a", "r", "a", "c", "t", "e", "r", "s", ".">>
MUST_BE_A_NUMBER ==
    <<" ", "m", "u", "s", "t", " ", "b", "e", " ", "a", " ", "n", "u", "m", "b", "e", "r",
      ".">>
MUST_BE_A_STRING ==
    <<" ", "m", "u", "s", "t", " ", "b", "e", " ", "a", " ", "s", "t", "r", "i", "n", "g",
      ".">>
MUST_BE_A_VALID_URL ==
    <<" ", "m", "u", "s", "t", " ", "b", "e", " ", "a", " ", "v", "a", "l", "i", "d", " ",
      "U", "R", "L", ".">>
MUST_BE_AN_ISO_DATE ==
    <<" ", "m", "u", "s", "t", " ", "b", "e", " ", "a", "n", " ", "I", "S", "O", " ", "d",
      "a", "t", "e", " ", "s", "t", "r", "i", "n", "g", ".">>
MUST_BE_A_BOOLEAN ==
    <<" ", "m", "u", "s", "t", " ", "b", "e", " ", "a", " ", "b", "o", "o", "l", "e", "a",
      "n", ".">>
HTML_FIELDS_MUST_BE_STRINGS ==
    <<"H", "T", "M", "L", " ", "f", "i", "e", "l", "d", "s", " ", "m", "u", "s", "t", " ",
      "b", "e", " ", "s", "t", "r", "i", "n", "g", "s", ".">>
URL_FIELDS_MUST_BE_STRINGS ==
    <<"U", "R", "L", " ", "f", "i", "e", "l", "d", "s", " ", "m", "u", "s", "t", " ", "b",
      "e", " ", "s", "t", "r", "i", "n", "g", "s", ".">>
URLS_MUST_START_WITH ==
    <<"U", "R", "L", "s", " ", "m", "u", "s", "t", " ", "s", "t", "a", "r", "t", " ", "w",
      "i", "t", "h", " ", "h", "t", "t", "p", ":", "/", "/", " ", "o", "r", " ", "h", "t",
      "t", "p", "s", ":", "/", "/">>
EXPECTED_AN_ARRAY ==
    <<"E", "x", "p", "e", "c", "t", "e", "d", " ", "a", "n", " ", "a", "r", "r", "a", "y",
      " ", "o", "f", " ", "s", "t", "r", "i", "n", "g", "s", ".">>
HTTP_PREFIX ==
    <<"h", "t", "t", "p", ":", "/", "/">>
HTTPS_PREFIX ==
    <<"h", "t", "t", "p", "s", ":", "/", "/">>
NULL_TEXT ==
    <<"n", "u", "l", "l">>
MILLIS_Z ==
    <<".", "0", "0", "0", "Z">>
SLUG_EXCEEDS ==
    <<"S", "l", "u", "g", " ", "e", "x", "c", "e", "e", "d", "s", " ", "m", "a", "x", "i",
      "m", "u", "m", " ", "l", "e", "n", "g", "t", "h", " ", "o", "f", " ", "1", "9", "1",
      " ", "c", "h", "a", "r", "a", "c", "t", "e", "r", "s", ".">>
SLUG_REQUIRED_PRODUCT ==
    <<"S", "l", "u", "g", " ", "i", "s", " ", "r", "e", "q", "u", "i", "r", "e", "d", " ",
      "f", "o", "r", " ", "p", "r", "o", "d", "u", "c", "t", " ", "u", "p", "d", "a", "t",
      "e", "s", ".">>
SLUG_REQUIRED_POST ==
    <<"S", "l", "u", "g", " ", "i", "s", " ", "r", "e", "q", "u", "i", "r", "e", "d", ".">>
SLUG_LOCKED ==
    <<"s", "l", "u", "g", "_", "l", "o", "c", "k", "e", "d">>
SLUG_CHANGES ==
    <<"S", "l", "u", "g", " ", "c", "h", "a", "n", "g", "e", "s", " ", "a", "r", "e", " ",
      "n", "o", "t", " ", "a", "l", "l", "o", "w", "e", "d", ".">>
TRIM_IS_NOT_A_FUNCTION ==
    <<"c", "a", "t", "e", "g", "o", "r", "y", "S", "l", "u", "g", ".", "t", "r", "i", "m",
      " ", "i", "s", " ", "n", "o", "t", " ", "a", " ", "f", "u", "n", "c", "t", "i", "o",
      "n">>
DOES_NOT_EXIST ==
    <<" ", "d", "o", "e", "s", " ", "n", "o", "t", " ", "e", "x", "i", "s", "t", ".">>
CONNECTION_LOST_MESSAGE ==
    <<"C", "o", "n", "n", "e", "c", "t", "i", "o", "n", " ", "l", "o", "s", "t", ":", " ",
      "T", "h", "e", " ", "s", "e", "r", "v", "e", "r", " ", "c", "l", "o", "s", "e", "d",
      " ", "t", "h", "e", " ", "c", "o", "n", "n", "e", "c", "t", "i", "o", "n", ".">>
\* `${key}` for the keys of the payloads
KeyText ==
    [title_h1 |-> <<"t", "i", "t", "l", "e", "_", "h", "1">>,
     short_summary |-> <<"s", "h", "o", "r", "t", "_", "s", "u", "m", "m", "a", "r", "y">>,
     desc_html |-> <<"d", "e", "s", "c", "_", "h", "t", "m", "l">>,
     primary_cta_label |-> <<"p", "r", "i", "m", "a", "r", "y", "_", "c", "t", "a", "_", "l", "a", "b", "e", "l">>,
     primary_cta_url |-> <<"p", "r", "i", "m", "a", "r", "y", "_", "c", "t", "a", "_", "u", "r", "l">>,
     secondary_cta_label |-> <<"s", "e", "c", "o", "n", "d", "a", "r", "y", "_", "c", "t", "a", "_", "l", "a", "b", "e", "l">>,
     secondary_cta_url |-> <<"s", "e", "c", "o", "n", "d", "a", "r", "y", "_", "c", "t", "a", "_", "u", "r", "l">>,
     price_display |-> <<"p", "r", "i", "c", "e", "_", "d", "i", "s", "p", "l", "a", "y">>,
     price_currency |-> <<"p", "r", "i", "c", "e", "_", "c", "u", "r", "r", "e", "n", "c", "y">>,
     price_amount |-> <<"p", "r", "i", "c", "e", "_", "a", "m", "o", "u", "n", "t">>,
     category_slug |-> <<"c", "a", "t", "e", "g", "o", "r", "y", "_", "s", "l", "u", "g">>,
     hero_image_url |-> <<"h", "e", "r", "o", "_", "i", "m", "a", "g", "e", "_", "u", "r", "l">>,
     gallery_image_urls |-> <<"g", "a", "l", "l", "e", "r", "y", "_", "i", "m", "a", "g", "e", "_", "u", "r", "l", "s">>,
     seo_title |-> <<"s", "e", "o", "_", "t", "i", "t", "l", "e">>,
     seo_description |-> <<"s", "e", "o", "_", "d", "e", "s", "c", "r", "i", "p", "t", "i", "o", "n">>,
     badge_label |-> <<"b", "a", "d", "g", "e", "_", "l", "a", "b", "e", "l">>,
     availability_label |-> <<"a", "v", "a", "i", "l", "a", "b", "i", "l", "i", "t", "y", "_", "l", "a", "b", "e", "l">>,
     title |-> <<"t", "i", "t", "l", "e">>,
     content_html |-> <<"c", "o", "n", "t", "e", "n", "t", "_", "h", "t", "m", "l">>,
     published_at |-> <<"p", "u", "b", "l", "i", "s", "h", "e", "d", "_", "a", "t">>,
     is_published |-> <<"i", "s", "_", "p", "u", "b", "l", "i", "s", "h", "e", "d">>]

\* A payload holds a value for every key; a key the object does not have
\* holds Absent.
Absent == [t |-> "absent", v |-> <<>>]
\* An array of strings, by its items.
Arr(items) == [t |-> "array", v |-> items]
\* A Date, by its toISOString().
DateOf(iso) == [t |-> "date", v |-> iso]

\* What a function gives: a value returned, or an Error thrown with a message.
Value(value) == [ok |-> TRUE, value |-> value, error |-> <<>>]
Throws(message) == [ok |-> FALSE, value |-> Undefined, error |-> message]

\* value == null
IsNullish(x) == x.t \in {"undefined", "null", "absent"}

\* A decimal numeral without zeros at the end of its fraction: the digits as
\* an integer m and the number s of fraction digits, for the number m / 10^s.
RECURSIVE Shorten(_, _)
Shorten(m, s) == IF s > 0 /\ m % 10 = 0 THEN Shorten(m \div 10, s - 1) ELSE <<m, s>>

\* The last s digits of m, with zeros in front
FractionText(m, s) ==
    AsString([i \in 1..s |-> fromCharCode(48 + ((m \div (10 ^ (s - i))) % 10))])
\* String(n) for the number m / 10^s, m >= 0 shortened
DecimalText(m, s) ==
    IF s = 0 THEN NumberToString(m)
    ELSE NumberToString(m \div (10 ^ s)) \o <<".">> \o FractionText(m % (10 ^ s), s)
NumberOf(pair) == Num(DecimalText(pair[1], pair[2]))
NotANumber == Num(<<"N", "a", "N">>)

\* Number(text) for the decimal numerals digits[.digits] and the empty
\* string; every other text of the model's inputs is no numeral (NaN).
NumberOfParts(parts) ==
    IF Len(parts) > 2 THEN NotANumber
    ELSE IF \E k \in 1..Len(parts) : \E i \in 1..Len(parts[k]) : parts[k][i] \notin Digit
    THEN NotANumber
    ELSE IF Len(parts[1]) = 0 /\ (Len(parts) = 1 \/ Len(parts[2]) = 0) THEN NotANumber
    ELSE IF Len(parts) = 1 THEN NumberOf(Shorten(DigitsValue(parts[1], 1, Len(parts[1]), 0), 0))
    ELSE NumberOf(Shorten(DigitsValue(parts[1] \o parts[2], 1, Len(parts[1]) + Len(parts[2]), 0),
                          Len(parts[2])))
NumberOfText(text) ==
    IF Trim(text) = <<>> THEN Num(<<"0">>) ELSE NumberOfParts(Split(Trim(text), "."))
\* Number(value)
ToNumber(x) ==
    CASE x.t = "number" -> x
      [] x.t = "string" -> NumberOfText(x.v)
      [] x.t = "null" -> Num(<<"0">>)
      [] x.t = "boolean" -> IF x.v = TRUE_TEXT THEN Num(<<"1">>) ELSE Num(<<"0">>)
      [] OTHER -> NotANumber

\* JSON.stringify of an array of strings that need no escape, and JSON.parse
\* of such a text (with or without a space after the commas)
RECURSIVE JoinItems(_, _)
JoinItems(items, k) ==
    IF k > Len(items) THEN <<>>
    ELSE (IF k > 1 THEN <<",">> ELSE <<>>) \o <<"\"">> \o items[k] \o <<"\"">>
         \o JoinItems(items, k + 1)
JsonStringify(x) ==
    IF x.t = "array" THEN <<"[">> \o JoinItems(x.v, 1) \o <<"]">>
    ELSE IF x.t = "null" THEN NULL_TEXT
    ELSE x.v
Unquote(text) == SubSeq(Trim(text), 2, Len(Trim(text)) - 1)
JsonParse(text) ==
    IF text = NULL_TEXT THEN JsNull
    ELSE IF Len(text) = 2 THEN Arr(<<>>)
    ELSE Arr(AsString([k \in 1..Len(Split(SubSeq(text, 2, Len(text) - 1), ",")) |->
                          Unquote(Split(SubSeq(text, 2, Len(text) - 1), ",")[k])]))

\* PRODUCT_COLUMNS in the order of its entries; maxLength 0 stands for none
PRODUCT_KEYS ==
    <<"title_h1", "short_summary", "desc_html", "primary_cta_label", "primary_cta_url",
      "secondary_cta_label", "secondary_cta_url", "price_display", "price_currency",
      "price_amount", "category_slug", "hero_image_url", "gallery_image_urls", "seo_title",
      "seo_description", "badge_label", "availability_label">>
Column(type, maxLength, sanitizer) ==
    [type |-> type, maxLength |-> maxLength, sanitizer |-> sanitizer]
PRODUCT_COLUMNS ==
    [title_h1 |-> Column("string", 255, "none"),
     short_summary |-> Column("text", 512, "none"),
     desc_html |-> Column("text", 0, "normalizeHtml"),
     primary_cta_label |-> Column("string", 120, "none"),
     primary_cta_url |-> Column("string", 2048, "normalizeUrl"),
     secondary_cta_label |-> Column("string", 120, "none"),
     secondary_cta_url |-> Column("string", 2048, "normalizeUrl"),
     price_display |-> Column("string", 120, "none"),
     price_currency |-> Column("string", 8, "none"),
     price_amount |-> Column("number", 0, "none"),
     category_slug |-> Column("string", 191, "none"),
     hero_image_url |-> Column("string", 2048, "normalizeUrl"),
     gallery_image_urls |-> Column("json", 0, "normalizeStringArray"),
     seo_title |-> Column("string", 255, "none"),
     seo_description |-> Column("text", 512, "none"),
     badge_label |-> Column("string", 120, "none"),
     availability_label |-> Column("string", 255, "none")]

\* `Field ${key} exceeds maximum length of ${maxLength} characters.`
ExceedsMessage(key, maxLength) ==
    FIELD \o KeyText[key] \o EXCEEDS \o NumberToString(maxLength) \o CHARACTERS

\* The string and text case of normalizeValue, the value trimmed
NormalizeTrimmed(trimmed, config, key) ==
    IF config.maxLength # 0 /\ Len(trimmed) > config.maxLength
    THEN Throws(ExceedsMessage(key, config.maxLength))
    ELSE Value(IF Len(trimmed) = 0 THEN JsNull ELSE Str(trimmed))

\* normalizeValue(value, config, key) of the products
ProductNormalizeValue(value, config, key) ==
    IF IsNullish(value) THEN Value(JsNull)
    ELSE IF config.type = "number"
    THEN IF value.t = "number" THEN Value(value)
         ELSE IF value.t = "string" /\ NumberOfText(value.v) # NotANumber
         THEN Value(NumberOfText(value.v))
         ELSE Throws(FIELD \o KeyText[key] \o MUST_BE_A_NUMBER)
    ELSE IF config.type = "json" THEN Value(Str(JsonStringify(value)))
    ELSE IF value.t # "string" THEN Throws(FIELD \o KeyText[key] \o MUST_BE_A_STRING)
    ELSE NormalizeTrimmed(Trim(value.v), config, key)

\* s.replace(/\r\n/g, '\n')
RECURSIVE ReplaceCrLf(_, _)
ReplaceCrLf(s, i) ==
    IF i > Len(s) THEN <<>>
    ELSE IF i < Len(s) /\ s[i] = fromCharCode(13) /\ s[i + 1] = fromCharCode(10)
    THEN <<fromCharCode(10)>> \o ReplaceCrLf(s, i + 2)
    ELSE <<s[i]>> \o ReplaceCrLf(s, i + 1)

normalizeHtml(value) ==
    IF IsNullish(value) THEN Value(JsNull)
    ELSE IF value.t # "string" THEN Throws(HTML_FIELDS_MUST_BE_STRINGS)
    ELSE Value(Str(Trim(ReplaceCrLf(value.v, 1))))

\* /^https?:\/\//i.test(text)
IsHttpUrl(text) ==
    StartsWith(toLowerCase(text), HTTP_PREFIX) \/ StartsWith(toLowerCase(text), HTTPS_PREFIX)

normalizeUrl(value) ==
    IF IsNullish(value) \/ value = Str(<<>>) THEN Value(JsNull)
    ELSE IF value.t # "string" THEN Throws(URL_FIELDS_MUST_BE_STRINGS)
    ELSE IF Len(Trim(value.v)) = 0 THEN Value(JsNull)
    ELSE IF ~IsHttpUrl(Trim(value.v)) THEN Throws(URLS_MUST_START_WITH)
    ELSE Value(Str(Trim(value.v)))

\* The items of an array that are left by map(trim) and filter(length > 0)
RECURSIVE KeptItems(_, _)
KeptItems(items, k) ==
    IF k > Len(items) THEN <<>>
    ELSE IF Len(Trim(items[k])) > 0 THEN <<Trim(items[k])>> \o KeptItems(items, k + 1)
    ELSE KeptItems(items, k + 1)
normalizeStringArray(value) ==
    IF IsNullish(value) THEN Value(Arr(<<>>))
    ELSE IF value.t # "array" THEN Throws(EXPECTED_AN_ARRAY)
    ELSE Value(Arr(KeptItems(value.v, 1)))

\* config.sanitizer ? config.sanitizer(incoming) : incoming
Sanitized(incoming, config) ==
    CASE config.sanitizer = "normalizeHtml" -> normalizeHtml(incoming)
      [] config.sanitizer = "normalizeUrl" -> normalizeUrl(incoming)
      [] config.sanitizer = "normalizeStringArray" -> normalizeStringArray(incoming)
      [] OTHER -> Value(incoming)

\* The normalized value of one field of a product payload
ProductNormalized(sanitized, config, key) ==
    IF ~sanitized.ok THEN sanitized ELSE ProductNormalizeValue(sanitized.value, config, key)
ProductField(incoming, key) ==
    ProductNormalized(Sanitized(incoming, PRODUCT_COLUMNS[key]), PRODUCT_COLUMNS[key], key)

\* areValuesEqual(current, next, type); JSON.parse of the model's texts does
\* not throw
JsonOf(x) == IF x.t = "string" THEN JsonParse(x.v) ELSE x
areValuesEqual(current, next, type) ==
    IF IsNullish(current) /\ IsNullish(next) THEN TRUE
    ELSE IF type = "json" THEN JsonStringify(JsonOf(current)) = JsonStringify(JsonOf(next))
    ELSE IF type = "number" THEN
        ToNumber(current) = ToNumber(next) /\ ToNumber(current) # NotANumber
    ELSE IF current.t = "date" /\ next.t = "string" THEN current.v = next.v
    ELSE current = next

\* What buildUpdateAssignments gives: the columns staged with their values in
\* the order of the columns, or the Error of the first field that fails.
Staged(assignments) == [ok |-> TRUE, assignments |-> assignments, error |-> <<>>]
StagingThrows(message) == [ok |-> FALSE, assignments |-> <<>>, error |-> message]
Assignment(key, value) == [key |-> key, value |-> value]

\* One turn of the loop of buildUpdateAssignments, the field normalized and
\* the later turns given
ProductStage(field, key, existing, rest) ==
    IF ~field.ok THEN StagingThrows(field.error)
    ELSE IF ~rest.ok THEN rest
    ELSE IF areValuesEqual(existing[key], field.value, PRODUCT_COLUMNS[key].type) THEN rest
    ELSE Staged(<<Assignment(key, field.value)>> \o rest.assignments)

\* buildUpdateAssignments(payload, existing) from the k-th column on
RECURSIVE ProductAssignmentsFrom(_, _, _)
ProductAssignmentsFrom(payload, existing, k) ==
    IF k > Len(PRODUCT_KEYS) THEN Staged(<<>>)
    ELSE IF payload[PRODUCT_KEYS[k]].t \in {"absent", "undefined"}
    THEN ProductAssignmentsFrom(payload, existing, k + 1)
    ELSE ProductStage(ProductField(payload[PRODUCT_KEYS[k]], PRODUCT_KEYS[k]),
                      PRODUCT_KEYS[k], existing,
                      ProductAssignmentsFrom(payload, existing, k + 1))
buildUpdateAssignments(payload, existing) == ProductAssignmentsFrom(payload, existing, 1)

\* normalizeSlug(value)
normalizeSlug(value, required) ==
    IF value.t # "string" \/ Len(Trim(value.v)) = 0 THEN Throws(required)
    ELSE IF Len(Trim(value.v)) > 191 THEN Throws(SLUG_EXCEEDS)
    ELSE Value(Str(Trim(value.v)))

(*************************** the database *********************************)
\* The values of the columns: NULL, a string, a decimal (its numeral), a JSON
\* array (its items), a DATETIME (as YYYY-MM-DD HH:MM:SS), a TINYINT.
SqlNull == [t |-> "sqlnull", v |-> <<>>]
Sql(type, v) == [t |-> type, v |-> v]

\* The value a column takes from a parameter of an UPDATE statement
SqlOfParameter(value, columnType) ==
    IF value.t = "null" THEN SqlNull
    ELSE CASE columnType = "number" -> Sql("decimal", ToNumber(value).v)
           [] columnType = "json" -> Sql("json", JsonParse(value.v).v)
           [] columnType = "datetime" -> Sql("datetime", value.v)
           [] columnType = "boolean" -> Sql("tinyint", value.v)
           [] OTHER -> Sql("varchar", value.v)

\* The value the driver gives for a column, with the options of the pool
\* (decimals as strings, DATETIME as Date in a process on UTC, JSON parsed)
DriverValue(column) ==
    CASE column.t = "sqlnull" -> JsNull
      [] column.t = "decimal" -> Str(column.v)
      [] column.t = "json" -> Arr(column.v)
      [] column.t = "datetime" ->
            DateOf(SubSeq(column.v, 1, 10) \o <<"T">> \o SubSeq(column.v, 12, 19) \o MILLIS_Z)
      [] column.t = "tinyint" -> Num(column.v)
      [] OTHER -> Str(column.v)
\* A RowDataPacket
DriverRow(row) == [key \in DOMAIN row |-> DriverValue(row[key])]

\* The row after UPDATE ... SET of the assignments
RECURSIVE RowUpdated(_, _, _, _)
RowUpdated(row, assignments, columns, k) ==
    IF k > Len(assignments) THEN row
    ELSE RowUpdated([row EXCEPT ![assignments[k].key] =
                        SqlOfParameter(assignments[k].value, columns[assignments[k].key].type)],
                    assignments, columns, k + 1)

\* The rows of the two tables are kept under one slug each.
PRODUCT_SLUG ==
    <<"a", "b", "c">>
POST_SLUG ==
    <<"n", "e", "w", "s">>

(*********************** lib/server/tidb/posts ****************************)
\* BLOG_COLUMNS in the order of its entries; maxLength 0 stands for none
BLOG_KEYS ==
    <<"title", "title_h1", "short_summary", "content_html", "seo_title", "seo_description",
      "primary_cta_label", "primary_cta_url", "secondary_cta_label", "secondary_cta_url",
      "category_slug", "hero_image_url", "published_at", "is_published">>
BLOG_COLUMNS ==
    [title |-> Column("string", 255, "none"),
     title_h1 |-> Column("string", 255, "none"),
     short_summary |-> Column("text", 1024, "none"),
     content_html |-> Column("html", 0, "none"),
     seo_title |-> Column("string", 255, "none"),
     seo_description |-> Column("text", 512, "none"),
     primary_cta_label |-> Column("string", 120, "none"),
     primary_cta_url |-> Column("url", 2048, "none"),
     secondary_cta_label |-> Column("string", 120, "none"),
     secondary_cta_url |-> Column("url", 2048, "none"),
     category_slug |-> Column("string", 191, "none"),
     hero_image_url |-> Column("url", 2048, "none"),
     published_at |-> Column("datetime", 0, "none"),
     is_published |-> Column("boolean", 0, "none")]

\* new Date(text) for the texts YYYY-MM-DDTHH:MM:SSZ and
\* YYYY-MM-DDTHH:MM:SS.mmmZ; every other text of the model's inputs is no
\* date. The Date is given by its toISOString(), Undefined for an invalid one.
IsoShape(text) ==
    /\ Len(text) \in {20, 24}
    /\ text[5] = "-" /\ text[8] = "-" /\ text[11] = "T" /\ text[14] = ":" /\ text[17] = ":"
    /\ text[Len(text)] = "Z"
    /\ Len(text) = 24 => text[20] = "."
    /\ \A i \in (1..(Len(text) - 1)) \ {5, 8, 11, 14, 17, 20} : text[i] \in Digit
NewDate(text) ==
    IF ~IsoShape(text) THEN Undefined
    ELSE IF Len(text) = 24 THEN DateOf(text)
    ELSE DateOf(SubSeq(text, 1, 19) \o MILLIS_Z)

\* The url case of normalizeValue, the value trimmed
BlogNormalizeUrl(trimmed, config, key) ==
    IF Len(trimmed) = 0 THEN Value(JsNull)
    ELSE IF ~IsHttpUrl(trimmed) THEN Throws(FIELD \o KeyText[key] \o MUST_BE_A_VALID_URL)
    ELSE IF config.maxLength # 0 /\ Len(trimmed) > config.maxLength
    THEN Throws(ExceedsMessage(key, config.maxLength))
    ELSE Value(Str(trimmed))

\* The datetime case of normalizeValue, the Date made:
\* toISOString().slice(0, 19).replace('T', ' ')
BlogNormalizeDate(date, key) ==
    IF date = Undefined THEN Throws(FIELD \o KeyText[key] \o MUST_BE_AN_ISO_DATE)
    ELSE Value(Str(SubSeq(date.v, 1, 10) \o <<" ">> \o SubSeq(date.v, 12, 19)))

\* normalizeValue(value, config, key) of the blog posts
BlogNormalizeValue(value, config, key) ==
    IF IsNullish(value) THEN Value(JsNull)
    ELSE CASE config.type \in {"string", "text"} ->
                IF value.t # "string" THEN Throws(FIELD \o KeyText[key] \o MUST_BE_A_STRING)
                ELSE NormalizeTrimmed(Trim(value.v), config, key)
           [] config.type = "html" ->
                IF value.t # "string" THEN Throws(FIELD \o KeyText[key] \o MUST_BE_A_STRING)
                ELSE Value(Str(Trim(ReplaceCrLf(value.v, 1))))
           [] config.type = "url" ->
                IF value.t # "string" THEN Throws(FIELD \o KeyText[key] \o MUST_BE_A_STRING)
                ELSE BlogNormalizeUrl(Trim(value.v), config, key)
           [] config.type = "datetime" ->
                IF value.t # "string" THEN Throws(FIELD \o KeyText[key] \o MUST_BE_AN_ISO_DATE)
                ELSE BlogNormalizeDate(NewDate(value.v), key)
           [] config.type = "boolean" ->
                IF value.t # "boolean" THEN Throws(FIELD \o KeyText[key] \o MUST_BE_A_BOOLEAN)
                ELSE Value(IF value.v = TRUE_TEXT THEN Num(<<"1">>) ELSE Num(<<"0">>))

\* String(value ?? '')
StringOrEmpty(x) == IF IsNullish(x) THEN <<>> ELSE x.v

\* areEqual(current, next, type)
areEqual(current, next, type) ==
    IF IsNullish(current) /\ IsNullish(next) THEN TRUE
    ELSE IF type = "boolean" THEN Truthy(current) = Truthy(next)
    ELSE IF type = "datetime" THEN StartsWith(StringOrEmpty(current), StringOrEmpty(next))
    ELSE current = next

\* One turn of the loop of buildAssignments, the field normalized and the
\* later turns given
BlogStage(field, key, existing, rest) ==
    IF ~field.ok THEN StagingThrows(field.error)
    ELSE IF ~rest.ok THEN rest
    ELSE IF areEqual(existing[key], field.value, BLOG_COLUMNS[key].type) THEN rest
    ELSE Staged(<<Assignment(key, field.value)>> \o rest.assignments)

\* buildAssignments(payload, existing) from the k-th column on
RECURSIVE BlogAssignmentsFrom(_, _, _)
BlogAssignmentsFrom(payload, existing, k) ==
    IF k > Len(BLOG_KEYS) THEN Staged(<<>>)
    ELSE IF payload[BLOG_KEYS[k]].t = "absent"
    THEN BlogAssignmentsFrom(payload, existing, k + 1)
    ELSE BlogStage(BlogNormalizeValue(payload[BLOG_KEYS[k]], BLOG_COLUMNS[BLOG_KEYS[k]],
                                      BLOG_KEYS[k]),
                   BLOG_KEYS[k], existing, BlogAssignmentsFrom(payload, existing, k + 1))
\* A loop over the keys of the payload, the slug among them.
buildAssignmentsOfPayload(payload, existing) ==
    IF payload.slug.t = "absent" \/ ~BlogAssignmentsFrom(payload, existing, 1).ok
    THEN BlogAssignmentsFrom(payload, existing, 1)
    ELSE Staged(<<Assignment("slug", payload.slug)>>
                \o BlogAssignmentsFrom(payload, existing, 1).assignments)
buildAssignments(payload, existing) == BlogAssignmentsFrom(payload, existing, 1)

(*********************** the row-update endpoints *************************)
\* Error objects: the Errors the update functions throw, by their message.
ErrorOf(class, message) == ErrorObject(class, Undefined, Undefined, Undefined, Str(message))
NoError == ErrorObject("none", Undefined, Undefined, Undefined, Undefined)
\* The error of a connection that is lost, for getConnection, beginTransaction
\* and commit.
ConnectionLost ==
    ErrorObject("Error", Str(PROTOCOL_CONNECTION_LOST), Undefined, Bool(TRUE),
                Str(CONNECTION_LOST_MESSAGE))

\* What updateProduct and updateBlogPost give their caller.
NoOutcome == [kind |-> "none", found |-> FALSE, rowsAffected |-> 0, error |-> NoError]
UpdateReturned(found, rowsAffected) ==
    [kind |-> "returned", found |-> found, rowsAffected |-> rowsAffected, error |-> NoError]
UpdateThrew(error) ==
    [kind |-> "threw", found |-> FALSE, rowsAffected |-> 0, error |-> error]

\* NextResponse.json(body, {status}), by the status and the ok, error_code
\* and rows_affected of the body
NoResponse == [status |-> 0, ok |-> FALSE, error_code |-> "", rows_affected |-> 0]
JsonError(status, error_code) ==
    [status |-> status, ok |-> FALSE, error_code |-> error_code, rows_affected |-> 0]
JsonOk(rows_affected) ==
    [status |-> 200, ok |-> TRUE, error_code |-> "", rows_affected |-> rows_affected]

\* The end of the catch blocks: toDbErrorInfo and the status of its code; an
\* exception of toDbErrorInfo leaves the handler (status 500 of the framework).
DbErrorResponse(info) ==
    IF ~info.ok THEN JsonError(500, "")
    ELSE JsonError(CASE info.code = "auth_failed" -> 401
                     [] info.code = "timeout" -> 504
                     [] OTHER -> 500,
                   IF info.code = "unknown" THEN "sql_error" ELSE info.code)

\* error instanceof Error && error.message && error.message.includes(text)
MessageIncludes(error, text) ==
    error.message.t = "string" /\ error.message.v # <<>> /\ includes(error.message.v, text)

\* The catch block of the product endpoint
ProductCatch(error) ==
    IF MessageIncludes(error, FIELD_WORD) THEN JsonError(400, "invalid_payload")
    ELSE DbErrorResponse(toDbErrorInfo(error))

\* A catch block that does not know the SlugLockedError.
PostCatchWithoutLock(error) ==
    IF MessageIncludes(error, FIELD_WORD) THEN JsonError(400, "invalid_payload")
    ELSE IF MessageIncludes(error, CATEGORY_WORD) THEN JsonError(400, "invalid_category")
    ELSE DbErrorResponse(toDbErrorInfo(error))

\* The catch block of the blog-post endpoint
PostCatch(error) ==
    IF error.class = "SlugLockedError" THEN JsonError(409, "slug_locked")
    ELSE IF MessageIncludes(error, FIELD_WORD) THEN JsonError(400, "invalid_payload")
    ELSE IF MessageIncludes(error, CATEGORY_WORD) THEN JsonError(400, "invalid_category")
    ELSE DbErrorResponse(toDbErrorInfo(error))

\* The answer of the product endpoint to what updateProduct gave
ProductAnswer(outcome) ==
    IF outcome.kind = "threw" THEN ProductCatch(outcome.error)
    ELSE IF ~outcome.found THEN JsonError(404, "product_not_found")
    ELSE JsonOk(outcome.rowsAffected)

\* The answer of the blog-post endpoint to what updateBlogPost gave
PostAnswer(outcome) ==
    IF outcome.kind = "threw" THEN PostCatch(outcome.error)
    ELSE IF ~outcome.found THEN JsonError(404, "post_not_found")
    ELSE JsonOk(outcome.rowsAffected)

\* The locals of one request to a row-update endpoint, with the call of
\* updateProduct or updateBlogPost it makes; same, stale, updated and
\* revalidated are history: whether writing the payload would leave the row
\* read as it is, whether another call has written the row since it was read,
\* whether an UPDATE statement was executed and the cache revalidated.
UpdIdle ==
    [op |-> "none", pc |-> "none", slug |-> <<>>, payload |-> <<>>, existing |-> <<>>,
     assignments |-> <<>>, same |-> FALSE, stale |-> FALSE, staleUpdate |-> FALSE,
     updated |-> FALSE, revalidated |-> FALSE, outcome |-> NoOutcome, response |-> NoResponse]
UpdOver(c) == upd[c].pc \in {"none", "done"}
Finished(run, outcome, response) ==
    [run EXCEPT !.pc = "done", !.outcome = outcome, !.response = response]
Refused(op, response) == [UpdIdle EXCEPT !.op = op, !.pc = "done", !.response = response]

\* ALLOWED_FIELDS: the fields of the body the endpoint hands to updateProduct
touched(fields) == Cardinality({k \in 1..Len(PRODUCT_KEYS) : fields[PRODUCT_KEYS[k]].t # "absent"})

\* Whether every field of the payload, written, leaves the row as it is.
ProductUnchanged(payload, row) ==
    \A k \in 1..Len(PRODUCT_KEYS) :
        \/ payload[PRODUCT_KEYS[k]].t \in {"absent", "undefined"}
        \/ /\ ProductField(payload[PRODUCT_KEYS[k]], PRODUCT_KEYS[k]).ok
           /\ SqlOfParameter(ProductField(payload[PRODUCT_KEYS[k]], PRODUCT_KEYS[k]).value,
                             PRODUCT_COLUMNS[PRODUCT_KEYS[k]].type) = row[PRODUCT_KEYS[k]]
BlogUnchanged(payload, row) ==
    \A k \in 1..Len(BLOG_KEYS) :
        \/ payload[BLOG_KEYS[k]].t = "absent"
        \/ /\ BlogNormalizeValue(payload[BLOG_KEYS[k]], BLOG_COLUMNS[BLOG_KEYS[k]],
                                 BLOG_KEYS[k]).ok
           /\ SqlOfParameter(BlogNormalizeValue(payload[BLOG_KEYS[k]],
                                                BLOG_COLUMNS[BLOG_KEYS[k]], BLOG_KEYS[k]).value,
                             BLOG_COLUMNS[BLOG_KEYS[k]].type) = row[BLOG_KEYS[k]]

\* POST of the product endpoint up to the first await of updateProduct: the
\* configuration, the body, the slug, the allowed fields, normalizeSlug
ProductRequest(configured, body) ==
    IF ~configured THEN Refused("product", JsonError(503, "missing_env"))
    ELSE IF ~body.parsed THEN Refused("product", JsonError(400, "invalid_payload"))
    ELSE IF body.fields.slug.t # "string" \/ Len(Trim(body.fields.slug.v)) = 0
    THEN Refused("product", JsonError(400, "missing_slug"))
    ELSE IF touched(body.fields) = 0 THEN Refused("product", JsonError(400, "no_updates"))
    ELSE IF ~normalizeSlug(Str(Trim(body.fields.slug.v)), SLUG_REQUIRED_PRODUCT).ok
    THEN Finished([UpdIdle EXCEPT !.op = "product"],
                  UpdateThrew(ErrorOf("Error", SLUG_EXCEEDS)),
                  ProductCatch(ErrorOf("Error", SLUG_EXCEEDS)))
    ELSE [UpdIdle EXCEPT !.op = "product", !.pc = "select",
                         !.slug = Trim(body.fields.slug.v), !.payload = body.fields]
PostProduct(c, configured, body) ==
    /\ UpdOver(c)
    /\ TxOver(c)
    /\ upd' = [upd EXCEPT ![c] = ProductRequest(configured, body)]
    /\ UNCHANGED <<db, tx>>

\* updateProduct after the first SELECT, the assignments built
ProductSelected(run, existing, same, staged) ==
    IF ~staged.ok
    THEN Finished([run EXCEPT !.existing = existing, !.same = same],
                  UpdateThrew(ErrorOf("Error", staged.error)),
                  ProductCatch(ErrorOf("Error", staged.error)))
    ELSE IF Len(staged.assignments) = 0
    THEN Finished([run EXCEPT !.existing = existing, !.same = same],
                  UpdateReturned(TRUE, 0), ProductAnswer(UpdateReturned(TRUE, 0)))
    ELSE [run EXCEPT !.pc = "update", !.existing = existing, !.same = same,
                     !.assignments = staged.assignments]

\* await pool.getConnection() and await connection.query(SELECT ...) settle,
\* with failure the error of a rejection or NoError
ProductSelectSettles(c, failure) ==
    /\ upd[c].op = "product"
    /\ upd[c].pc = "select"
    /\ upd' = [upd EXCEPT ![c] =
                IF failure # NoError
                THEN Finished(@, UpdateThrew(failure), ProductCatch(failure))
                ELSE IF upd[c].slug # PRODUCT_SLUG
                THEN Finished(@, UpdateReturned(FALSE, 0), ProductAnswer(UpdateReturned(FALSE, 0)))
                ELSE ProductSelected(@, DriverRow(db.products),
                                     ProductUnchanged(upd[c].payload, db.products),
                                     buildUpdateAssignments(upd[c].payload, DriverRow(db.products)))]
    /\ UNCHANGED <<db, tx>>

\* The calls that hold a row of the table read and have their UPDATE to come.
Holding(op, c) ==
    {d \in Callers \ {c} : upd[d].op = op /\ upd[d].pc \in {"category", "update"}}

\* The locals of every call after the UPDATE of c was executed
AfterUpdate(op, c) ==
    [d \in Callers |->
        IF d = c THEN [upd[c] EXCEPT !.pc = "reload", !.updated = TRUE,
                                     !.staleUpdate = upd[c].stale]
        ELSE IF d \in Holding(op, c) THEN [upd[d] EXCEPT !.stale = TRUE]
        ELSE upd[d]]

\* await connection.execute(UPDATE ...) of updateProduct
ProductUpdateSettles(c) ==
    /\ upd[c].op = "product"
    /\ upd[c].pc = "update"
    /\ db' = [db EXCEPT !.products = RowUpdated(@, upd[c].assignments, PRODUCT_COLUMNS, 1)]
    /\ upd' = AfterUpdate("product", c)
    /\ UNCHANGED tx

\* The second SELECT of updateProduct
ProductReloadSettles(c) ==
    /\ upd[c].op = "product"
    /\ upd[c].pc = "reload"
    /\ upd' = [upd EXCEPT ![c] = [@ EXCEPT !.pc = "revalidate"]]
    /\ UNCHANGED <<db, tx>>

\* await revalidateProductPaths(...), and the answer of the endpoint
ProductRevalidateSettles(c) ==
    /\ upd[c].op = "product"
    /\ upd[c].pc = "revalidate"
    /\ upd' = [upd EXCEPT ![c] =
                Finished([@ EXCEPT !.revalidated = TRUE],
                         UpdateReturned(TRUE, 1), ProductAnswer(UpdateReturned(TRUE, 1)))]
    /\ UNCHANGED <<db, tx>>

\* The categories of the categories table.
Categories ==
    {<<"b", "o", "o", "k", "s">>}

\* PUT of the blog-post endpoint up to the first await of runInTransaction:
\* the configuration, the slug of the path, the body, normalizeSlug
PostRequest(configured, slug, body) ==
    IF ~configured THEN Refused("post", JsonError(503, "missing_env"))
    ELSE IF slug.t # "string" \/ Len(Trim(slug.v)) = 0
    THEN Refused("post", JsonError(400, "missing_slug"))
    ELSE IF ~body.parsed THEN Refused("post", JsonError(400, "invalid_payload"))
    ELSE IF ~normalizeSlug(slug, SLUG_REQUIRED_POST).ok
    THEN Finished([UpdIdle EXCEPT !.op = "post"],
                  UpdateThrew(ErrorOf("Error", normalizeSlug(slug, SLUG_REQUIRED_POST).error)),
                  PostCatch(ErrorOf("Error", normalizeSlug(slug, SLUG_REQUIRED_POST).error)))
    ELSE [UpdIdle EXCEPT !.op = "post", !.pc = "select", !.slug = Trim(slug.v),
                         !.payload = body.fields]
PutPost(c, configured, slug, body) ==
    /\ UpdOver(c)
    /\ TxOver(c)
    /\ upd' = [upd EXCEPT ![c] = PostRequest(configured, slug, body)]
    /\ tx' = [tx EXCEPT ![c] =
                IF upd'[c].pc = "select" THEN [TxIdle EXCEPT !.pc = "getConnection"] ELSE TxIdle]
    /\ UNCHANGED db

\* The endpoint answers when runInTransaction is over: with what the callback
\* returned or threw, or with the error of the connection.
PostOver(run, transaction) ==
    IF transaction.pc = "returned" THEN Finished(run, run.outcome, PostAnswer(run.outcome))
    ELSE IF transaction.pc = "threw"
    THEN IF transaction.thrown = "callback"
         THEN Finished(run, run.outcome, PostAnswer(run.outcome))
         ELSE Finished(run, UpdateThrew(ConnectionLost), PostAnswer(UpdateThrew(ConnectionLost)))
    ELSE run

\* The steps of runInTransaction around the callback of updateBlogPost; the
\* end of the transaction gives up the lock of the row, a commit with the row
\* as the transaction wrote it and a rollback with the row as it was.
PostConnectionSettles(c, ok) ==
    /\ upd[c].op = "post"
    /\ GetConnectionSettles(c, ok)
    /\ upd' = [upd EXCEPT ![c] = PostOver(@, tx'[c])]
    /\ UNCHANGED db
PostBeginSettles(c, ok) ==
    /\ upd[c].op = "post"
    /\ BeginTransactionSettles(c, ok)
    /\ UNCHANGED <<upd, db>>
PostCommitSettles(c, ok) ==
    /\ upd[c].op = "post"
    /\ CommitSettles(c, ok)
    /\ upd' = [upd EXCEPT ![c] = PostOver(@, tx'[c])]
    /\ db' = IF ok /\ db.lockedBy = c
             THEN [db EXCEPT !.posts = db.working, !.lockedBy = 0]
             ELSE db
PostRollbackSettles(c, ok) ==
    /\ upd[c].op = "post"
    /\ RollbackSettles(c, ok)
    /\ upd' = [upd EXCEPT ![c] = PostOver(@, tx'[c])]
    /\ db' = IF db.lockedBy = c
             THEN [db EXCEPT !.working = db.posts, !.lockedBy = 0]
             ELSE db

\* The callback of updateBlogPost returns or throws.
PostReturns(c, run, outcome) ==
    /\ upd' = [upd EXCEPT ![c] = [run EXCEPT !.pc = "callback over", !.outcome = outcome]]
    /\ tx' = [tx EXCEPT ![c] = CallbackReturns(@, outcome.rowsAffected)]
PostThrows(c, run, error) ==
    /\ upd' = [upd EXCEPT ![c] = [run EXCEPT !.pc = "callback over",
                                             !.outcome = UpdateThrew(error)]]
    /\ tx' = [tx EXCEPT ![c] = CallbackThrows(@, "callback")]

\* The callback from buildAssignments on
PostStaged(c, run, staged) ==
    IF ~staged.ok THEN PostThrows(c, run, ErrorOf("Error", staged.error))
    ELSE IF Len(staged.assignments) = 0 THEN PostReturns(c, run, UpdateReturned(TRUE, 0))
    ELSE /\ upd' = [upd EXCEPT ![c] = [run EXCEPT !.pc = "update",
                                                  !.assignments = staged.assignments]]
         /\ UNCHANGED tx
PostStaging(c, run) == PostStaged(c, run, buildAssignments(run.payload, run.existing))

\* The callback after the SELECT ... FOR UPDATE has given the row: the test
\* of the slug of the payload and the call of assertCategoryExists, whose
\* categorySlug.trim() throws a TypeError on a value that is no string
SlugChange(run) ==
    /\ run.payload.slug.t = "string"
    /\ Trim(run.payload.slug.v) # <<>>
    /\ Trim(run.payload.slug.v) # run.slug
PostSelected(c, run) ==
    IF SlugChange(run)
    THEN IF Truthy(run.existing.is_published)
         THEN PostThrows(c, run, ErrorOf("SlugLockedError", SLUG_LOCKED))
         ELSE PostThrows(c, run, ErrorOf("Error", SLUG_CHANGES))
    ELSE IF ~IsNullish(run.payload.category_slug) /\ Truthy(run.payload.category_slug)
    THEN IF run.payload.category_slug.t # "string"
         THEN PostThrows(c, run, ErrorOf("TypeError", TRIM_IS_NOT_A_FUNCTION))
         ELSE /\ upd' = [upd EXCEPT ![c] = [run EXCEPT !.pc = "category"]]
              /\ UNCHANGED tx
    ELSE PostStaging(c, run)

\* await connection.query(SELECT ... FOR UPDATE) settles, with failure the
\* error of a rejection or NoError; it waits while another transaction holds
\* the lock of the row.
PostSelectSettles(c, failure) ==
    /\ upd[c].op = "post"
    /\ upd[c].pc = "select"
    /\ tx[c].pc = "callback"
    /\ IF failure # NoError
       THEN PostThrows(c, upd[c], failure) /\ UNCHANGED db
       ELSE IF upd[c].slug # POST_SLUG
       THEN PostReturns(c, upd[c], UpdateReturned(FALSE, 0)) /\ UNCHANGED db
       ELSE /\ db.lockedBy \in {0, c}
            /\ db' = [db EXCEPT !.lockedBy = c]
            /\ PostSelected(c, [upd[c] EXCEPT !.existing = DriverRow(db.working),
                                              !.same = BlogUnchanged(upd[c].payload, db.working)])

\* The SELECT of assertCategoryExists settles.
PostCategorySettles(c) ==
    /\ upd[c].op = "post"
    /\ upd[c].pc = "category"
    /\ IF Trim(upd[c].payload.category_slug.v) \in Categories
       THEN PostStaging(c, upd[c])
       ELSE PostThrows(c, upd[c],
                       ErrorOf("Error", CATEGORY_WORD \o <<" ">> \o upd[c].payload.category_slug.v
                                        \o DOES_NOT_EXIST))
    /\ UNCHANGED db

\* await connection.execute(UPDATE ...) of updateBlogPost
PostUpdateSettles(c) ==
    /\ upd[c].op = "post"
    /\ upd[c].pc = "update"
    /\ db' = [db EXCEPT !.working = RowUpdated(@, upd[c].assignments, BLOG_COLUMNS, 1)]
    /\ upd' = AfterUpdate("post", c)
    /\ UNCHANGED tx

\* The second SELECT of updateBlogPost
PostReloadSettles(c) ==
    /\ upd[c].op = "post"
    /\ upd[c].pc = "reload"
    /\ upd' = [upd EXCEPT ![c] = [@ EXCEPT !.pc = "revalidate"]]
    /\ UNCHANGED <<db, tx>>

\* await revalidateBlogPaths(...); the callback returns
PostRevalidateSettles(c) ==
    /\ upd[c].op = "post"
    /\ upd[c].pc = "revalidate"
    /\ PostReturns(c, [upd[c] EXCEPT !.revalidated = TRUE], UpdateReturned(TRUE, 1))
    /\ UNCHANGED db

(************************** inputs and fetches ***************************)
\* The server works on one request at a time.
Reqs == {1}

Iota(n) == [i \in 1..n |-> i]

\* payload.productSlugs
SlugMenu == {<<>>, <<2, 1, 2>>}
\* payload.urls / additionalUrls: URL 1 is a sitemap URL, URL 3 the product URL
\* of slug 1.
UrlMenu == {<<>>, <<3, SITEMAP_XML, 3, 6>>}
\* A payload.urls that fills one purge request and starts a second.
BulkUrlMenu == {<<>>, Iota(MAX_URLS_PER_REQUEST + 1)}
\* URL lists handed to purgeChunk and recordCloudflarePurgeBatch directly.
ListMenu == {<<>>, <<7>>, <<8, 7, 8>>}
\* URL lists handed to purgeCloudflareUrls directly, by length.
Lengths ==
    {0, 1, MAX_URLS_PER_REQUEST - 1, MAX_URLS_PER_REQUEST, MAX_URLS_PER_REQUEST + 1,
     2 * MAX_URLS_PER_REQUEST, MaxUrls}

\* Every way one attempt of purgeChunk can end, by status class.
Statuses == {200, 301, 403, 499, 500, 524}
AttemptOutcomes ==
    {HttpResponse(st, ray, 1) : st \in Statuses, ray \in {"", "ray"}}
    \cup {Thrown("abort", 1), Thrown("network", 1)}

\* The ways an attempt ends that the endpoints are run against: a success, a
\* rejection without cf-ray, a server error, a timeout.
EndpointOutcomes ==
    {HttpResponse(200, "ray-a", 1), HttpResponse(403, "", 2),
     HttpResponse(500, "ray-b", 3), Thrown("abort", 4)}

\* The environments the server is started in: the toggles and the site URL
\* vary where the purge is configured.
EnvMenu ==
    {e \in Envs : (~e.zoneId \/ ~e.apiToken)
                    => (e.enablePurgeOnPublish /\ e.includeProductUrls /\ e.siteUrl)}

\* The secrets; the second holds the separator of the Basic credentials.
PW1 == <<"p", "w", "1">>
PW2 == <<"p", ":", "2">>
Secrets == {PW1, PW2}

Unset == [defined |-> FALSE, value |-> <<>>]
Defined(value) == [defined |-> TRUE, value |-> value]
\* ADMIN_PASSWORD: not set, blank, a secret, the same in white space, another.
PasswordMenu ==
    {Unset, Defined(<<" ">>), Defined(PW1), Defined(<<" ">> \o PW1 \o <<" ">>), Defined(PW2)}

\* What getRandomValues leaves in the array of the nonce.
NonceArrays == {[i \in 1..NONCE_BYTES |-> 0], [i \in 1..NONCE_BYTES |-> ((i * 37) % 256)]}

\* The times of the clock and of the calls, in milliseconds from the start:
\* the start, the last millisecond of a TTL that began then, the one after.
Times == {0, ADMIN_SESSION_TTL_SECONDS * 1000, ADMIN_SESSION_TTL_SECONDS * 1000 + 1}
\* The issuedAt handed to issueAdminSessionToken by a script: a millisecond
\* after the start (the middleware issues at the times of the clock).
IssueTimes == {1}

Alterations == {"extra", "nosignature", "issuedAt"}

Pathnames == {ADMIN_PATH, API_ADMIN_PREFIX \o <<"/", "x">>, <<"/">>}

\* The Authorization headers: none, the script's token, Basic credentials.
Headers ==
    {[kind |-> "none", user |-> <<>>, password |-> <<>>],
     [kind |-> "bearer", user |-> <<>>, password |-> <<>>]}
    \cup {[kind |-> "basic", user |-> ADMIN_USER, password |-> s] : s \in Secrets}
    \cup {[kind |-> "basic", user |-> <<"r", "o", "o", "t">>, password |-> PW1]}

\* Error values: primitives, driver errors with and without code, sqlState,
\* fatal and message, and the errors of Prisma.
ER_DUP_ENTRY ==
    <<"E", "R", "_", "D", "U", "P", "_", "E", "N", "T", "R", "Y">>
ECONNREFUSED ==
    <<"E", "C", "O", "N", "N", "R", "E", "F", "U", "S", "E", "D">>
CodeMenu ==
    {Undefined, Num(<<"1", "0", "4", "5">>), Str(ETIMEDOUT), Str(PROTOCOL_CONNECTION_LOST),
     Str(ER_ACCESS_DENIED_ERROR), Str(ER_PARSE_ERROR), Str(ER_DUP_ENTRY), Str(ECONNREFUSED)}
SqlStateMenu == {Undefined, Str(<<"2", "8", "0", "0", "0">>)}
FatalMenu == {Undefined, Bool(TRUE)}
MessageTexts ==
    {<<"A", "c", "c", "e", "s", "s", " ", "d", "e", "n", "i", "e", "d", " ", "f", "o", "r", " ", "u", "s", "e", "r">>,
     <<"Q", "u", "e", "r", "y", " ", "T", "i", "m", "e", "o", "u", "t">>,
     <<"s", "y", "n", "t", "a", "x", " ", "e", "r", "r", "o", "r", " ", "n", "e", "a", "r", " ", "'", "t", "i", "m", "e", "o", "u", "t", "'">>,
     <<"D", "u", "p", "l", "i", "c", "a", "t", "e", " ", "e", "n", "t", "r", "y">>,
     <<"U", "n", "k", "n", "o", "w", "n", " ", "c", "o", "l", "u", "m", "n", " ", "'", "p", "e", "r", "m", "i", "s", "s", "i", "o", "n", "'">>,
     <<"A", "c", "c", "e", "s", "s", " ", "d", "e", "n", "i", "e", "d", ":", " ", "r", "e", "a", "d", " ", "t", "i", "m", "e", "d", " ", "o", "u", "t">>,
     <<"C", "o", "n", "n", "e", "c", "t", "i", "o", "n", " ", "t", "i", "m", "e", "d", " ", "o", "u", "t", " ", "a", "f", "t", "e", "r", " ", "3", "0", "0", "0", "0", "m", "s">>,
     <<"P", "e", "r", "m", "i", "s", "s", "i", "o", "n", " ", "c", "h", "e", "c", "k", ":", " ", "C", "o", "n", "n", "e", "c", "t", "i", "o", "n", " ", "l", "o", "s", "t">>}
MessageMenu == {Undefined, Num(<<"4", "2">>)} \cup {Str(text) : text \in MessageTexts}
PrismaClasses ==
    {"PrismaClientInitializationError", "PrismaClientKnownRequestError",
     "PrismaClientUnknownRequestError", "PrismaClientRustPanicError",
     "PrismaClientValidationError"}
ErrorMenu ==
    {Primitive(value) : value \in {Undefined, JsNull, Num(<<"0">>), Num(<<"5">>), Str(<<>>),
                                   Str(<<"b", "o", "o", "m">>), Bool(FALSE), Bool(TRUE)}}
    \cup {ErrorObject("Error", code, sqlState, fatal, message) :
            code \in CodeMenu, sqlState \in SqlStateMenu, fatal \in FatalMenu,
            message \in MessageMenu}
    \cup {ErrorObject(class, Undefined, Undefined, Undefined, Str(text)) :
            class \in PrismaClasses, text \in MessageTexts}
    \cup {ErrorObject("PrismaClientKnownRequestError", Str(<<"P", "2", "0", "0", "2">>),
                      Undefined, Undefined, Str(text)) : text \in MessageTexts}

\* The rows of the two tables when the process starts.
ProductRow ==
    [[k \in {PRODUCT_KEYS[i] : i \in 1..Len(PRODUCT_KEYS)} \cup {"slug"} |-> SqlNull]
        EXCEPT !["slug"] = Sql("varchar", PRODUCT_SLUG),
               !["title_h1"] = Sql("varchar", <<"O", "l", "d">>),
               !["price_amount"] = Sql("decimal", <<"1", "9", ".", "9", "9">>),
               !["category_slug"] = Sql("varchar", <<"b", "o", "o", "k", "s">>)]
PostRow ==
    [[k \in {BLOG_KEYS[i] : i \in 1..Len(BLOG_KEYS)} \cup {"slug"} |-> SqlNull]
        EXCEPT !["slug"] = Sql("varchar", POST_SLUG),
               !["title"] = Sql("varchar", <<"O", "l", "d">>),
               !["category_slug"] = Sql("varchar", <<"b", "o", "o", "k", "s">>),
               !["published_at"] = Sql("datetime", <<"2", "0", "2", "4", "-", "0", "1", "-", "0", "2", " ", "0", "3", ":", "0", "4", ":", "0", "5">>),
               !["is_published"] = Sql("tinyint", <<"1">>)]
DbInitial == [products |-> ProductRow, posts |-> PostRow, working |-> PostRow, lockedBy |-> 0]

\* The bodies of the requests: parsed is whether request.json() gave an
\* object, fields its properties.
Unparsed == [parsed |-> FALSE, fields |-> <<>>]
JsonBody(fields) == [parsed |-> TRUE, fields |-> fields]
NoProductFields ==
    [k \in {PRODUCT_KEYS[i] : i \in 1..Len(PRODUCT_KEYS)} \cup {"slug", "unknown_field"} |-> Absent]
NoPostFields ==
    [k \in {BLOG_KEYS[i] : i \in 1..Len(BLOG_KEYS)} \cup {"slug"} |-> Absent]
ProductBody(slug, key, value) ==
    JsonBody([NoProductFields EXCEPT !["slug"] = slug, ![key] = value])
PostBody(key, value) == JsonBody([NoPostFields EXCEPT ![key] = value])

\* A text of 256 characters.
LongText == [i \in 1..256 |-> "x"]

\* Bodies of two calls that run side by side.
RowProductBodies ==
    {ProductBody(Str(PRODUCT_SLUG), "title_h1", Str(<<" ", "N", "e", "w", " ">>)),
     ProductBody(Str(PRODUCT_SLUG), "price_amount", Num(<<"2", "0">>))}
RowPostBodies ==
    {PostBody("title", Str(<<" ", "N", "e", "w", " ">>)),
     PostBody("published_at", Str(<<"2", "0", "2", "5", "-", "0", "6", "-", "0", "7", "T", "0", "8", ":", "0", "9", ":", "1", "0", "Z">>)),
     PostBody("slug", Str(<<"o", "t", "h", "e", "r">>))}

\* Bodies of the requests to the product endpoint
ProductBodies ==
    {Unparsed,
     JsonBody([NoProductFields EXCEPT !["slug"] = Str(PRODUCT_SLUG)]),
     ProductBody(Absent, "title_h1", Str(<<" ", "N", "e", "w", " ">>)),
     ProductBody(Str(<<"z", "z", "z">>), "title_h1", Str(<<" ", "N", "e", "w", " ">>)),
     ProductBody(Str(<<"z", "z", "z">>), "title_h1", Num(<<"4", "2">>)),
     ProductBody(Str(PRODUCT_SLUG), "unknown_field", Str(<<"x">>)),
     JsonBody([NoProductFields EXCEPT !["slug"] = Str(PRODUCT_SLUG),
                                      !["unknown_field"] = Str(<<"x">>),
                                      !["title_h1"] = Str(<<" ", "N", "e", "w", " ">>)]),
     ProductBody(Str(PRODUCT_SLUG), "title_h1", Str(<<" ", "N", "e", "w", " ">>)),
     ProductBody(Str(PRODUCT_SLUG), "title_h1", Str(<<"O", "l", "d">>)),
     ProductBody(Str(PRODUCT_SLUG), "title_h1", Num(<<"4", "2">>)),
     ProductBody(Str(PRODUCT_SLUG), "title_h1", Str(LongText)),
     ProductBody(Str(PRODUCT_SLUG), "price_amount", Str(<<"1", "9", ".", "9", "9">>)),
     ProductBody(Str(PRODUCT_SLUG), "price_amount", Num(<<"2", "0">>)),
     ProductBody(Str(PRODUCT_SLUG), "price_amount", Str(<<"a", "b", "c">>)),
     ProductBody(Str(PRODUCT_SLUG), "primary_cta_url", Str(<<"f", "t", "p", ":", "/", "/", "x", ".", "y">>)),
     ProductBody(Str(PRODUCT_SLUG), "primary_cta_url", Num(<<"4", "2">>)),
     ProductBody(Str(PRODUCT_SLUG), "desc_html", Num(<<"4", "2">>)),
     ProductBody(Str(PRODUCT_SLUG), "gallery_image_urls", Arr(<<<<"a", ".", "j", "p", "g">>, <<" ">>>>)),
     ProductBody(Str(PRODUCT_SLUG), "gallery_image_urls", Str(<<"a", ".", "j", "p", "g">>))}

\* The requests to the product endpoint, with and without the configuration
\* of the database
ProductRequests ==
    {[configured |-> TRUE, body |-> body] : body \in ProductBodies}
    \cup {[configured |-> FALSE, body |-> Unparsed]}

\* Bodies of the requests to the blog-post endpoint
PostBodies ==
    {Unparsed,
     JsonBody(NoPostFields),
     PostBody("title", Str(<<" ", "N", "e", "w", " ">>)),
     PostBody("title", Num(<<"4", "2">>)),
     PostBody("title", Str(LongText)),
     PostBody("published_at", Str(<<"2", "0", "2", "4", "-", "0", "1", "-", "0", "2", "T", "0", "3", ":", "0", "4", ":", "0", "5", "Z">>)),
     PostBody("published_at", Str(<<"2", "0", "2", "5", "-", "0", "6", "-", "0", "7", "T", "0", "8", ":", "0", "9", ":", "1", "0", "Z">>)),
     PostBody("published_at", Str(<<"y", "e", "s", "t", "e", "r", "d", "a", "y">>)),
     PostBody("is_published", Bool(TRUE)),
     PostBody("is_published", Bool(FALSE)),
     PostBody("is_published", Str(<<"y", "e", "s">>)),
     PostBody("primary_cta_url", Str(<<"f", "t", "p", ":", "/", "/", "x", ".", "y">>)),
     PostBody("category_slug", Str(<<"b", "o", "o", "k", "s">>)),
     PostBody("category_slug", Str(<<"n", "o", "p", "e">>)),
     PostBody("category_slug", Num(<<"4", "2">>)),
     PostBody("slug", Str(<<"o", "t", "h", "e", "r">>)),
     JsonBody([NoPostFields EXCEPT !["slug"] = Str(POST_SLUG),
                                   !["title"] = Str(<<" ", "N", "e", "w", " ">>)])}

\* The requests to the blog-post endpoint, with the slug of the path
PostRequests ==
    {[configured |-> TRUE, slug |-> Str(POST_SLUG), body |-> body] : body \in PostBodies}
    \cup {[configured |-> TRUE, slug |-> Str(<<"z", "z", "z">>), body |-> PostBody("title", Str(<<" ", "N", "e", "w", " ">>))],
          [configured |-> TRUE, slug |-> Str(<<"z", "z", "z">>), body |-> PostBody("title", Num(<<"4", "2">>))],
          [configured |-> TRUE, slug |-> Str(<<" ">>), body |-> PostBody("title", Str(<<" ", "N", "e", "w", " ">>))],
          [configured |-> FALSE, slug |-> Str(POST_SLUG), body |-> Unparsed]}

\* The errors of the database that reject a query.
AccessDenied ==
    ErrorObject("Error", Str(ER_ACCESS_DENIED_ERROR), Undefined, Undefined,
                Str(<<"A", "c", "c", "e", "s", "s", " ", "d", "e", "n", "i", "e", "d", " ", "f", "o", "r", " ", "u", "s", "e", "r">>))
DbFailures == {ConnectionLost, AccessDenied}

(***************************** specification *****************************)
\* No database call made.
DataAtRest ==
    /\ classified = NULL
    /\ tx = [c \in Callers |-> TxIdle]
    /\ db = DbInitial
    /\ upd = [c \in Callers |-> UpdIdle]

\* No admin password, no session.
AuthAtRest ==
    /\ adminPassword = Unset
    /\ cookie = NULL
    /\ bearer = NULL
    /\ verdict = NULL

Init ==
    /\ AuthAtRest
    /\ DataAtRest
    /\ env \in EnvMenu
    /\ lastBatch = NULL
    /\ req = [r \in Reqs |-> Idle]
    /\ now = 0
    /\ lastCall = NULL
    /\ lastPurge = NULL

PurgeSitemaps == \E r \in Reqs, slugs \in SlugMenu, additional \in UrlMenu :
    StartPurgeSitemaps(r, slugs, additional)
PurgeLastBatch == \E r \in Reqs : StartPurgeLastBatch(r)
PurgeEverything == \E r \in Reqs, retryOnTimeout \in BOOLEAN :
    StartPurgeEverything(r, retryOnTimeout)
PurgeOnPublish == \E r \in Reqs, slugs \in SlugMenu, additional \in UrlMenu,
                     hasRequest \in BOOLEAN :
    StartPurgeOnPublish(r, slugs, additional, hasRequest)
RecordBatch == \E urls \in ListMenu : CallRecordBatch(urls)
EndpointFetch == \E r \in Reqs, out \in EndpointOutcomes : FetchSettles(r, out)
Answer == \E r \in Reqs : Deliver(r)

\* The server: the purge endpoints, purgeOnPublish and the batch slot.
Next ==
    \/ PurgeSitemaps
    \/ PurgeLastBatch
    \/ PurgeEverything
    \/ PurgeOnPublish
    \/ RecordBatch
    \/ EndpointFetch
    \/ Answer
    \/ Tick

Spec == Init /\ [][Next]_vars

\* Two requests to the purge endpoints side by side, in a configured
\* environment: every await of a handler is a point where the other runs.
RaceSlots == {1, 2}
RacePayloads ==
    {[slugs |-> <<2, 1, 2>>, additional |-> <<>>],
     [slugs |-> <<>>, additional |-> <<3, SITEMAP_XML, 3, 6>>]}
RaceOutcomes == {HttpResponse(200, "ray-a", 1), HttpResponse(500, "ray-b", 3)}

InitRace ==
    /\ AuthAtRest
    /\ DataAtRest
    /\ env = [zoneId |-> TRUE, apiToken |-> TRUE, enablePurgeOnPublish |-> TRUE,
              includeProductUrls |-> TRUE, siteUrl |-> TRUE]
    /\ lastBatch = NULL
    /\ req = [r \in RaceSlots |-> Idle]
    /\ now = 0
    /\ lastCall = NULL
    /\ lastPurge = NULL

RacePurgeSitemaps == \E r \in RaceSlots, payload \in RacePayloads :
    StartPurgeSitemaps(r, payload.slugs, payload.additional)
RacePurgeLastBatch == \E r \in RaceSlots : StartPurgeLastBatch(r)
RaceFetch == \E r \in RaceSlots, out \in RaceOutcomes : FetchSettles(r, out)
RaceAnswer == \E r \in RaceSlots : Deliver(r)

NextRace ==
    \/ RacePurgeSitemaps
    \/ RacePurgeLastBatch
    \/ RaceFetch
    \/ RaceAnswer

SpecRace == InitRace /\ [][NextRace]_vars

\* The values of options.retries: the default, none, more, and a negative one.
MaxRetries == 2
RetriesMenu == {-1, 0, DEFAULT_RETRIES} \cup {MaxRetries}
\* The ways a request to the images API ends, and what safeParseJson gives.
ApiOutcomes ==
    {HttpResponse(200, "ray-a", 1), HttpResponse(404, "", 2), HttpResponse(500, "ray-b", 3),
     HttpResponse(503, "", 3), Thrown("abort", 4), Thrown("network", 5)}
ParsedMenu == {"undefined", "json"}

\* A configured environment, for the functions that are handed a configuration.
InitConfigured ==
    /\ Init
    /\ env = [zoneId |-> TRUE, apiToken |-> TRUE, enablePurgeOnPublish |-> TRUE,
              includeProductUrls |-> TRUE, siteUrl |-> TRUE]

PurgeChunk == \E r \in Reqs, urls \in ListMenu, retryOnTimeout \in BOOLEAN :
    CallPurgeChunk(r, urls, retryOnTimeout)
AttemptFetch == \E r \in Reqs, out \in AttemptOutcomes : FetchSettles(r, out)

\* purgeChunk on its own, against every way an attempt can end.
NextChunk ==
    \/ PurgeChunk
    \/ AttemptFetch
    \/ Answer

SpecChunk == InitConfigured /\ [][NextChunk]_vars

RequestApi == \E r \in Reqs, retries \in RetriesMenu : CallRequestCloudflareApi(r, retries)
ApiFetch == \E r \in Reqs, out \in ApiOutcomes : ApiFetchSettles(r, out)
ApiParse == \E r \in Reqs, data \in ParsedMenu : ApiParseSettles(r, data)

\* requestCloudflareApi on its own, against every way a request can end.
NextImages ==
    \/ RequestApi
    \/ ApiFetch
    \/ ApiParse
    \/ Answer

SpecImages == InitConfigured /\ [][NextImages]_vars

PurgeUrls == \E r \in Reqs, n \in Lengths : CallPurgeCloudflareUrls(r, Iota(n))
PurgeSitemapsBulk == \E r \in Reqs, additional \in BulkUrlMenu :
    StartPurgeSitemaps(r, <<>>, additional)

\* Long URL lists: purgeCloudflareUrls on lists of up to MaxUrls URLs, and the
\* two endpoints on a URL set of more than one chunk.
NextBulk ==
    \/ PurgeUrls
    \/ PurgeSitemapsBulk
    \/ PurgeLastBatch
    \/ EndpointFetch
    \/ Answer

SpecBulk == InitConfigured /\ [][NextBulk]_vars

InitAuth ==
    /\ DataAtRest
    /\ adminPassword \in PasswordMenu
    /\ cookie = NULL
    /\ bearer = NULL
    /\ verdict = NULL
    /\ env = [zoneId |-> TRUE, apiToken |-> TRUE, enablePurgeOnPublish |-> TRUE,
              includeProductUrls |-> TRUE, siteUrl |-> TRUE]
    /\ lastBatch = NULL
    /\ req = [r \in Reqs |-> Idle]
    /\ now = 0
    /\ lastCall = NULL
    /\ lastPurge = NULL

IssueToken == \E s \in Secrets, t \in IssueTimes, array \in NonceArrays :
    CallIssue(s, t, array)
VerifyToken == \E held \in {"cookie", "bearer"}, s \in Secrets, t \in Times :
    CallVerify(IF held = "cookie" THEN cookie ELSE bearer, s, t)
\* A script alters the token it was issued and has it verified.
VerifyAlteredToken == \E how \in Alterations, s \in Secrets, t \in Times :
    CallVerifyAltered(bearer, how, s, t)
\* A request comes with the cookie only where the browser holds one, and the
\* middleware draws a nonce only for Basic credentials.
Request == \E pathname \in Pathnames, withCookie \in BOOLEAN, h \in Headers,
              array \in NonceArrays :
    /\ verdict = NULL
    /\ withCookie => cookie # NULL
    /\ h.kind # "basic" => array = [i \in 1..NONCE_BYTES |-> 0]
    /\ HandleRequest(pathname, withCookie, h, array)
RotatePassword == \E p \in PasswordMenu : SetAdminPassword(p)
TimePasses == \E t \in Times : ClockAdvances(t)

\* The admin gate: the session codec called directly and the middleware,
\* over changes of the password and the passing of the TTL.
NextAuth ==
    \/ IssueToken
    \/ VerifyToken
    \/ VerifyAlteredToken
    \/ Request
    \/ Return
    \/ RotatePassword
    \/ TimePasses

SpecAuth == InitAuth /\ [][NextAuth]_vars

\* The strings handed to verifyAdminSessionToken.  Signed strings: an issuedAt
\* text, the nonce and the signature a holder of the secret computes over the
\* two.  Strings with the signature of the payload 1:nonce cut short,
\* lengthened, changed in one character, or left empty.  Strings without a
\* separator, and tokens that are no base64.
NONCE == randomNonce([i \in 1..NONCE_BYTES |-> ((i * 37) % 256)])
IssuedAtTexts ==
    {<<"1">>, <<"a", "b", "c">>, <<"1", "a", "b", "c">>, <<" ", "1">>, <<"-", "1">>,
     <<"1", ".", "5">>}
SignedString(issuedAtRaw, secret) ==
    issuedAtRaw \o <<":">> \o NONCE \o <<":">>
    \o signPayload(issuedAtRaw \o <<":">> \o NONCE, secret)
GoodSignature == signPayload(<<"1", ":">> \o NONCE, PW1)
BadSignatures ==
    {SubSeq(GoodSignature, 1, Len(GoodSignature) - 1),
     GoodSignature \o <<"0">>,
     <<(IF GoodSignature[1] = "0" THEN "1" ELSE "0")>> \o SubSeq(GoodSignature, 2, Len(GoodSignature)),
     SubSeq(GoodSignature, 1, 1),
     <<>>}
DecodedStrings ==
    {SignedString(issuedAtRaw, secret) : issuedAtRaw \in IssuedAtTexts, secret \in Secrets}
    \cup {<<"1", ":">> \o NONCE \o <<":">> \o signature : signature \in BadSignatures}
    \cup {<<":">> \o NONCE \o <<":">> \o GoodSignature,
          <<"1", ":", ":">> \o GoodSignature,
          <<"g", "a", "r", "b", "a", "g", "e">>}
PresentedTokens ==
    {toBase64Url(decoded) : decoded \in DecodedStrings}
    \cup {<<>>, <<"!", "!", "!">>, <<"a", "b", "c", "d", "e">>, <<"a">>,
          SubSeq(toBase64Url(SignedString(<<"1">>, PW1)), 1, 9)}

VerifyString == \E token \in PresentedTokens, s \in Secrets, t \in Times :
    CallVerifyString(token, s, t)

\* verifyAdminSessionToken on its own, on strings of every make.
NextVerify ==
    \/ VerifyString

SpecVerify == InitAuth /\ [][NextVerify]_vars

InitErrors == InitConfigured
Classify == \E error \in ErrorMenu : CallToDbErrorInfo(error)

\* The classifier of database errors, on every error value of the menu.
NextErrors ==
    \/ Classify

SpecErrors == InitErrors /\ [][NextErrors]_vars

\* Results of a callback.
Results == {1, 2}
Run == \E c \in Callers, configured \in BOOLEAN :
    CallRunInTransaction(c, configured) /\ UNCHANGED <<authVars, purgeVars, classified, rowVars>>
Connect == \E c \in Callers, ok \in BOOLEAN :
    GetConnectionSettles(c, ok) /\ UNCHANGED <<authVars, purgeVars, classified, rowVars>>
Begin == \E c \in Callers, ok \in BOOLEAN :
    BeginTransactionSettles(c, ok) /\ UNCHANGED <<authVars, purgeVars, classified, rowVars>>
Callback == \E c \in Callers, ok \in BOOLEAN, result \in Results :
    CallbackSettles(c, ok, result) /\ UNCHANGED <<authVars, purgeVars, classified, rowVars>>
Commit == \E c \in Callers, ok \in BOOLEAN :
    CommitSettles(c, ok) /\ UNCHANGED <<authVars, purgeVars, classified, rowVars>>
Rollback == \E c \in Callers, ok \in BOOLEAN :
    RollbackSettles(c, ok) /\ UNCHANGED <<authVars, purgeVars, classified, rowVars>>

\* runInTransaction called side by side, against every way its awaits settle.
NextTx ==
    \/ Run
    \/ Connect
    \/ Begin
    \/ Callback
    \/ Commit
    \/ Rollback

SpecTx == InitConfigured /\ [][NextTx]_vars

\* Two calls of updateProduct and updateBlogPost side by side on a database
\* that answers every statement.
RowFrame == UNCHANGED <<authVars, purgeVars, classified>>
RowPostProduct == (\E c \in Callers, body \in RowProductBodies : PostProduct(c, TRUE, body)) /\ RowFrame
RowProductSelect == (\E c \in Callers : ProductSelectSettles(c, NoError)) /\ RowFrame
RowProductUpdate == (\E c \in Callers : ProductUpdateSettles(c)) /\ RowFrame
RowProductReload == (\E c \in Callers : ProductReloadSettles(c)) /\ RowFrame
RowProductRevalidate == (\E c \in Callers : ProductRevalidateSettles(c)) /\ RowFrame
RowPutPost ==
    (\E c \in Callers, body \in RowPostBodies : PutPost(c, TRUE, Str(POST_SLUG), body)) /\ RowFrame
RowPostConnection == (\E c \in Callers : PostConnectionSettles(c, TRUE)) /\ RowFrame
RowPostBegin == (\E c \in Callers : PostBeginSettles(c, TRUE)) /\ RowFrame
RowPostSelect == (\E c \in Callers : PostSelectSettles(c, NoError)) /\ RowFrame
RowPostUpdate == (\E c \in Callers : PostUpdateSettles(c)) /\ RowFrame
RowPostReload == (\E c \in Callers : PostReloadSettles(c)) /\ RowFrame
RowPostRevalidate == (\E c \in Callers : PostRevalidateSettles(c)) /\ RowFrame
RowPostCommit == (\E c \in Callers : PostCommitSettles(c, TRUE)) /\ RowFrame
RowPostRollback == (\E c \in Callers : PostRollbackSettles(c, TRUE)) /\ RowFrame
NextRows ==
    \/ RowPostProduct
    \/ RowProductSelect
    \/ RowProductUpdate
    \/ RowProductReload
    \/ RowProductRevalidate
    \/ RowPutPost
    \/ RowPostConnection
    \/ RowPostBegin
    \/ RowPostSelect
    \/ RowPostUpdate
    \/ RowPostReload
    \/ RowPostRevalidate
    \/ RowPostCommit
    \/ RowPostRollback
SpecRows == InitConfigured /\ [][NextRows]_vars

\* One request after the other to the two endpoints, with every body and a
\* database that may reject a statement.
EndpointPostProduct ==
    (\E request \in ProductRequests : PostProduct(1, request.configured, request.body))
    /\ RowFrame
EndpointProductSelect ==
    (\E failure \in DbFailures \cup {NoError} : ProductSelectSettles(1, failure)) /\ RowFrame
EndpointProductUpdate == ProductUpdateSettles(1) /\ RowFrame
EndpointProductReload == ProductReloadSettles(1) /\ RowFrame
EndpointProductRevalidate == ProductRevalidateSettles(1) /\ RowFrame
EndpointPutPost ==
    (\E request \in PostRequests :
        PutPost(1, request.configured, request.slug, request.body))
    /\ RowFrame
EndpointPostConnection == (\E ok \in BOOLEAN : PostConnectionSettles(1, ok)) /\ RowFrame
EndpointPostBegin == (\E ok \in BOOLEAN : PostBeginSettles(1, ok)) /\ RowFrame
EndpointPostSelect ==
    (\E failure \in DbFailures \cup {NoError} : PostSelectSettles(1, failure)) /\ RowFrame
EndpointPostCategory == PostCategorySettles(1) /\ RowFrame
EndpointPostUpdate == PostUpdateSettles(1) /\ RowFrame
EndpointPostReload == PostReloadSettles(1) /\ RowFrame
EndpointPostRevalidate == PostRevalidateSettles(1) /\ RowFrame
EndpointPostCommit == (\E ok \in BOOLEAN : PostCommitSettles(1, ok)) /\ RowFrame
EndpointPostRollback == (\E ok \in BOOLEAN : PostRollbackSettles(1, ok)) /\ RowFrame
NextEndpoints ==
    \/ EndpointPostProduct
    \/ EndpointProductSelect
    \/ EndpointProductUpdate
    \/ EndpointProductReload
    \/ EndpointProductRevalidate
    \/ EndpointPutPost
    \/ EndpointPostConnection
    \/ EndpointPostBegin
    \/ EndpointPostSelect
    \/ EndpointPostCategory
    \/ EndpointPostUpdate
    \/ EndpointPostReload
    \/ EndpointPostRevalidate
    \/ EndpointPostCommit
    \/ EndpointPostRollback
SpecEndpoints == InitConfigured /\ [][NextEndpoints]_vars

(******************************* claims **********************************)
\* The slots in which purgeChunk was called on its own.
ChunkCalls == {r \in Reqs : req[r].kind = "purgeChunk"}

\* C1: whatever the upstream does, purgeChunk issues at most 2 HTTP requests,
\* does not throw, and returns a PurgeResult whose attempts is 1 or 2 and is
\* the number of requests it issued.
C1_AtMostTwoAttempts ==
    \A r \in ChunkCalls :
        LET q == req[r]
        IN  /\ Len(q.sent) <= 2
            /\ q.pc = "done" =>
                 /\ DOMAIN q.response = {"returns"}
                 /\ q.response.returns.attempts \in {1, 2}
                 /\ q.response.returns.attempts = Len(q.sent)

\* purgeChunk has returned after a second request.
C1_Witness ==
    \E r \in ChunkCalls :
        /\ req[r].pc = "done"
        /\ Len(req[r].sent) = 2
        /\ req[r].response.returns.attempts = 2

\* C2: purgeChunk makes a second attempt if and only if the first ended with a
\* status >= 500 (524 included), or timed out while the caller had set
\* retryOnTimeout; otherwise the first attempt is the only one and the result
\* says attempts = 1.
C2_FirstOutcomeWarrantsRetry(q) ==
    LET first == q.tried[1]
    IN  \/ first.type = "response" /\ first.status >= 500
        \/ first.type = "abort" /\ q.retryOnTimeout

C2_RetryIffTransient ==
    \A r \in ChunkCalls :
        LET q == req[r]
        IN  Len(q.tried) >= 1 =>
              /\ Len(q.sent) >= 2 <=> C2_FirstOutcomeWarrantsRetry(q)
              /\ (q.pc = "done" /\ ~C2_FirstOutcomeWarrantsRetry(q))
                    => q.response.returns.attempts = 1

\* A first attempt answered 524 was followed by a second, and purgeChunk has
\* returned.
C2_Witness ==
    \E r \in ChunkCalls :
        LET q == req[r]
        IN  /\ q.pc = "done"
            /\ q.tried[1].type = "response" /\ q.tried[1].status = 524
            /\ Len(q.sent) = 2

\* The slots in which purgeCloudflareUrls runs or has run.
UrlCalls ==
    {r \in Reqs : req[r].kind \in {"purgeCloudflareUrls", "purgeSitemaps",
                                   "purgeLastBatch", "purgeOnPublish"}}

\* ceil(n / MAX_URLS_PER_REQUEST)
ChunkCount(n) == (n + MAX_URLS_PER_REQUEST - 1) \div MAX_URLS_PER_REQUEST

\* The number of bodies the slot has sent for chunk c.
BodiesFor(q, c) == Cardinality({i \in 1..Len(q.sent) : q.sent[i].chunk = c})

\* C3: a URL list of length n is purged in ceil(n / 2000) consecutive chunks in
\* the order of the list, which together are the list; a chunk has 1 to 2000
\* URLs and every chunk but the last has 2000; the requests of a chunk carry
\* that chunk, and the chunks are requested one after the other, each once.
C3_ChunksPartitionUrls ==
    \A r \in UrlCalls :
        LET q == req[r]
            n == Len(q.urls)
            count == ChunkCount(n)
            first(c) == MAX_URLS_PER_REQUEST * (c - 1) + 1
            last(c) == IF c < count THEN MAX_URLS_PER_REQUEST * c ELSE n
        IN  /\ \A i \in 1..Len(q.sent) :
                 LET b == q.sent[i]
                 IN  /\ b.chunk \in 1..count
                     /\ b.files = SubSeq(q.urls, first(b.chunk), last(b.chunk))
                     /\ Len(b.files) >= 1 /\ Len(b.files) <= MAX_URLS_PER_REQUEST
                     /\ b.chunk < count => Len(b.files) = MAX_URLS_PER_REQUEST
                     /\ IF i = 1 THEN b.chunk = 1
                        ELSE b.chunk \in {q.sent[i - 1].chunk, q.sent[i - 1].chunk + 1}
            /\ q.pc = "done" =>
                 /\ \A c \in 1..count : BodiesFor(q, c) >= 1
                 /\ Len(q.results) = count

\* A list of MaxUrls = 5000 URLs has been purged in chunks of 2000, 2000 and
\* the rest.
C3_Witness ==
    \E r \in UrlCalls :
        LET q == req[r]
        IN  /\ q.pc = "done"
            /\ Len(q.urls) = MaxUrls
            /\ Len(q.results) = 3
            /\ \E i, j, k \in 1..Len(q.sent) :
                 /\ q.sent[i].chunk = 1 /\ Len(q.sent[i].files) = MAX_URLS_PER_REQUEST
                 /\ q.sent[j].chunk = 2 /\ Len(q.sent[j].files) = MAX_URLS_PER_REQUEST
                 /\ q.sent[k].chunk = 3
                 /\ Len(q.sent[k].files) = MaxUrls - 2 * MAX_URLS_PER_REQUEST

\* C4: purgeCloudflareUrls works through the chunks one at a time and each on
\* its own: a request for a chunk is sent only when every chunk before it has
\* its result, a chunk that failed is followed by the next chunk all the same,
\* and the results are one per chunk, the c-th for the c-th chunk.
C4_ChunksSequentialIsolated ==
    \A r \in UrlCalls :
        LET q == req[r]
            count == ChunkCount(Len(q.urls))
        IN  /\ \A i \in 1..Len(q.sent) : Len(q.results) >= q.sent[i].chunk - 1
            /\ q.pc = "fetch" => Len(q.results) = q.sent[Len(q.sent)].chunk - 1
            /\ \A c \in 1..Len(q.results) :
                 /\ q.results[c].attempts = BodiesFor(q, c)
                 /\ c < count => BodiesFor(q, c + 1) >= 1
            /\ (q.pc = "done" /\ q.sent # <<>>) => Len(q.results) = count
            /\ (q.pc = "done" /\ q.sent # <<>> /\ q.kind = "purgeCloudflareUrls")
                  => q.response = [returns |-> q.results]

\* Of three chunks the first failed after its retry, and the second and the
\* third were purged.
C4_Witness ==
    \E r \in UrlCalls :
        LET q == req[r]
        IN  /\ q.pc = "done"
            /\ Len(q.results) = 3
            /\ ~q.results[1].ok /\ q.results[1].attempts = 2
            /\ q.results[2].ok /\ q.results[3].ok

\* The slots in which one of the two endpoints has answered from the results
\* of a purge.
Aggregated ==
    {r \in Reqs : /\ req[r].kind \in {"purgeSitemaps", "purgeLastBatch"}
                  /\ req[r].pc = "done"
                  /\ req[r].sent # <<>>}

RECURSIVE C5_Total(_, _, _)
C5_Total(results, field, i) ==
    IF i > Len(results) THEN 0 ELSE results[i][field] + C5_Total(results, field, i + 1)

RECURSIVE C5_Rays(_, _)
C5_Rays(results, i) ==
    IF i > Len(results) THEN <<>> ELSE results[i].rayIds \o C5_Rays(results, i + 1)

\* C5: the purge-sitemaps and purge-last-batch endpoints answer with ok = every
\* chunk ok, ray_ids = the chunks' rayIds in chunk order, latency_ms and
\* attempts = the sums over the chunks, and error_code 'http_error' exactly
\* when ok is false.
C5_ResponseAggregatesChunks ==
    \A r \in Aggregated :
        LET q == req[r]
            a == q.response
        IN  /\ a.ok <=> \A c \in 1..Len(q.results) : q.results[c].ok
            /\ a.ray_ids = C5_Rays(q.results, 1)
            /\ a.latency_ms = C5_Total(q.results, "latencyMs", 1)
            /\ a.attempts = C5_Total(q.results, "attempts", 1)
            /\ a.attempts = Len(q.sent)
            /\ a.error_code = IF a.ok THEN "undefined" ELSE "http_error"

\* The replay of a batch of two chunks has answered: the first chunk was
\* purged, the second failed after a retry.
C5_Witness ==
    \E r \in Aggregated :
        LET q == req[r]
        IN  /\ q.kind = "purgeLastBatch"
            /\ Len(q.results) = 2
            /\ q.results[1].ok /\ ~q.results[2].ok
            /\ Len(q.response.ray_ids) = 3
            /\ ~q.response.ok

\* The place of the first u in s.
FirstIndex(s, u) == CHOOSE i \in 1..Len(s) : s[i] = u /\ \A j \in 1..(i - 1) : s[j] # u

\* d holds every element of s once, in the order in which they first come in s.
IsDeduplicated(d, s) ==
    /\ Range(d) = Range(s)
    /\ \A i, j \in 1..Len(d) :
         i < j => d[i] # d[j] /\ FirstIndex(s, d[i]) < FirstIndex(s, d[j])

\* C6: the batch slot is one slot, the last write wins: getLastCloudflarePurgeBatch
\* gives the deduplicated URL list of the latest recordCloudflarePurgeBatch call,
\* without any URL that only an earlier call named, and gives null only as long
\* as no call has been made.
C6_LastWriteWins ==
    /\ getLastCloudflarePurgeBatch = NULL <=> lastCall = NULL
    /\ lastCall # NULL =>
         /\ IsDeduplicated(getLastCloudflarePurgeBatch.urls, lastCall.urls)
         /\ \A u \in Range(lastCall.earlier) \ Range(lastCall.urls) :
              u \notin Range(getLastCloudflarePurgeBatch.urls)

\* A call that named a URL twice has overwritten a batch of other URLs.
C6_Witness ==
    /\ lastCall # NULL
    /\ Len(lastCall.urls) > Cardinality(Range(lastCall.urls))
    /\ Range(lastCall.earlier) \ Range(lastCall.urls) # {}
    /\ Len(lastBatch.urls) = Cardinality(Range(lastCall.urls))

\* The slots in which the replay endpoint has answered.
Replays == {r \in Reqs : req[r].kind = "purgeLastBatch" /\ req[r].pc = "done"}

\* C7: with the purge configured and no batch recorded, or an empty one, the
\* replay endpoint answers {ok: false, error_code: 'no_previous_batch'} and
\* sends nothing to the CDN.
C7_NoPreviousBatch ==
    [][\A r \in Reqs :
         ( /\ req[r].pc = "idle"
           /\ req'[r].kind = "purgeLastBatch"
           /\ getCloudflarePurgeConfig # NULL
           /\ (lastBatch = NULL \/ lastBatch.urls = <<>>) )
         => /\ req'[r].pc = "done"
            /\ req'[r].response.ok = FALSE
            /\ req'[r].response.error_code = "no_previous_batch"
            /\ req'[r].sent = <<>>]_vars

\* The replay endpoint has answered no_previous_batch with an empty batch in
\* the slot.
C7_Witness ==
    \E r \in Replays :
        /\ req[r].response.error_code = "no_previous_batch"
        /\ lastBatch # NULL
        /\ lastBatch.urls = <<>>
        /\ req[r].sent = <<>>

\* C8: after a selective purge of a URL set U, by the purge-sitemaps endpoint
\* or by purgeOnPublish, the batch slot holds U (until the next call that
\* records a batch), so that a replay issued next purges U.
C8_PurgeCreatesBatch ==
    (lastPurge # NULL /\ lastPurge.kind \in {"purgeSitemaps", "purgeOnPublish"})
        => (lastBatch # NULL /\ lastBatch.urls = lastPurge.urls)

\* The calls of verifyAdminSessionToken on a token issued earlier.
VerifyCalls == IF verdict # NULL /\ verdict.op = "verify" THEN {verdict} ELSE {}

\* C9: a token issued with secret s at time t verifies with the same secret s
\* at time now exactly when 0 <= now - t <= 12 hours, both ends included: it
\* is refused once the TTL has passed and when it was issued in the future.
C9_VerifiesWithinTtl ==
    \A v \in VerifyCalls :
        v.secret = v.token.secret
            => (v.result <=> ( /\ 0 <= v.now - v.token.issuedAt
                               /\ v.now - v.token.issuedAt <= 12 * 60 * 60 * 1000 ))

\* A token is accepted in the last millisecond of its TTL.
C9_Witness ==
    \E v \in VerifyCalls :
        /\ v.secret = v.token.secret
        /\ v.now - v.token.issuedAt = 12 * 60 * 60 * 1000
        /\ v.token.issuedAt > 0
        /\ v.result

\* The requests the middleware has answered on a guarded path with a password
\* configured, that showed session tokens and no Basic credentials.
TokenRequests ==
    IF /\ verdict # NULL
       /\ verdict.op = "middleware"
       /\ needsAdminAuth(verdict.request.pathname)
       /\ verdict.password # <<>>
       /\ ~verdict.basic
       /\ (verdict.cookie # NULL \/ verdict.bearer # NULL)
    THEN {verdict} ELSE {}

\* C10: a token issued under a secret never verifies under another secret, at
\* any time; with the password changed, the middleware refuses a request that
\* shows only tokens issued under other secrets, as cookie or as bearer token.
C10_OtherSecretRejected ==
    /\ \A v \in VerifyCalls : v.secret # v.token.secret => ~v.result
    /\ \A v \in TokenRequests :
         ( /\ v.cookie # NULL => v.cookie.secret # v.password
           /\ v.bearer # NULL => v.bearer.secret # v.password )
         => v.response.status = 401

\* After a change of the password the middleware has refused a cookie that it
\* had set itself less than a TTL before.
C10_Witness ==
    \E v \in TokenRequests :
        /\ v.cookie # NULL
        /\ v.bearer = NULL
        /\ v.cookie.secret # v.password
        /\ v.now - v.cookie.issuedAt \in 0..1
        /\ v.response.status = 401

\* The calls of verifyAdminSessionToken on the altered form of a token.
AlteredCalls ==
    IF verdict # NULL /\ verdict.op = "verifyAltered" THEN {verdict} ELSE {}

\* C11: a token whose decoded string does not split on ':' into exactly three
\* parts, fewer than three or four and more, is rejected with false, for
\* every secret and time.
C11_PartCountFailsClosed ==
    \A v \in AlteredCalls : v.parts # 3 => ~v.result

\* The requests the middleware has answered on a protected path with the
\* admin password configured.
GuardedRequests ==
    IF /\ verdict # NULL
       /\ verdict.op = "middleware"
       /\ needsAdminAuth(verdict.request.pathname)
       /\ verdict.password # <<>>
    THEN {verdict} ELSE {}

\* A token is valid where it was issued under the configured password no
\* longer than the TTL ago and not in the future.
ValidToken(tok, v) ==
    /\ tok # NULL
    /\ tok.secret = v.password
    /\ 0 <= v.now - tok.issuedAt
    /\ v.now - tok.issuedAt <= 12 * 60 * 60 * 1000
\* Basic credentials are valid for the user admin with the configured password.
ValidBasic(v) ==
    /\ v.header.kind = "basic"
    /\ v.header.user = <<"a", "d", "m", "i", "n">>
    /\ v.header.password = v.password

\* C12: on a protected path with the password configured the middleware
\* admits a request exactly when the session cookie, the bearer token or the
\* Basic credentials it shows are valid, an invalid cookie not standing in the
\* way of a valid bearer token or valid Basic credentials; every other
\* request is answered 401 with a WWW-Authenticate: Basic header.
C12_AdmitsIffCredentialValid ==
    \A v \in GuardedRequests :
        /\ v.response.status = 200
              <=> (ValidToken(v.cookie, v) \/ ValidToken(v.bearer, v) \/ ValidBasic(v))
        /\ v.response.status # 200
              => /\ v.response.status = 401
                 /\ v.response.wwwAuthenticate
                      = "Basic realm=\"Virtual Product Pages Admin\", charset=\"UTF-8\""

\* A request with a cookie of an earlier password and valid Basic credentials
\* was admitted, and one with such a cookie and a valid bearer token.
C12_Witness ==
    \E v \in GuardedRequests :
        /\ v.cookie # NULL
        /\ ~ValidToken(v.cookie, v)
        /\ ValidBasic(v) \/ ValidToken(v.bearer, v)
        /\ v.response.status = 200

\* C13: the middleware sets a session cookie exactly on the requests it
\* admits through the Basic branch, user admin with the configured password
\* and no valid cookie before it; user admin with a wrong password gets 401
\* with WWW-Authenticate and no cookie, and a request admitted by its cookie
\* or its bearer token gets no new cookie.
C13_CookieIffBasicLogin ==
    \A v \in GuardedRequests :
        /\ v.response.setCookie # <<>>
              <=> (ValidBasic(v) /\ ~ValidToken(v.cookie, v))
        /\ v.response.setCookie # <<>> => v.response.status = 200
        /\ ( /\ v.header.kind = "basic"
             /\ v.header.user = <<"a", "d", "m", "i", "n">>
             /\ v.header.password # v.password
             /\ ~ValidToken(v.cookie, v) )
              => /\ v.response.status = 401
                 /\ v.response.wwwAuthenticate # ""
                 /\ v.response.setCookie = <<>>
        /\ (ValidToken(v.cookie, v) \/ ValidToken(v.bearer, v))
              => v.response.setCookie = <<>>

\* The middleware has refused the user admin with a wrong password, without
\* a cookie in the response.
C13_Witness ==
    \E v \in GuardedRequests :
        /\ v.header.kind = "basic"
        /\ v.header.user = <<"a", "d", "m", "i", "n">>
        /\ v.header.password # v.password
        /\ v.response.status = 401
        /\ v.response.setCookie = <<>>

\* The requests on a protected path that carry the cookie of a Basic login
\* and no Authorization header, made at or after the login with the password
\* of the login configured.
SessionRequests ==
    {v \in GuardedRequests :
        /\ v.cookie # NULL
        /\ v.header.kind = "none"
        /\ v.cookie.secret = v.password
        /\ v.now >= v.cookie.issuedAt}

\* C14: after a Basic login at time t has set the session cookie, a later
\* request to a protected path with only that cookie is admitted while
\* now - t <= 12 hours and answered 401 once now - t > 12 hours, the admin
\* password being the same.
C14_SessionLastsTtl ==
    \A v \in SessionRequests :
        /\ v.now - v.cookie.issuedAt <= 12 * 60 * 60 * 1000 => v.response.status = 200
        /\ v.now - v.cookie.issuedAt > 12 * 60 * 60 * 1000 => v.response.status = 401

\* A session was refused one millisecond after its TTL.
C14_Witness ==
    \E v \in SessionRequests :
        /\ v.now - v.cookie.issuedAt = 12 * 60 * 60 * 1000 + 1
        /\ v.response.status = 401
        /\ v.response.deleteCookie

\* The calls of toDbErrorInfo.
Classified == IF classified # NULL THEN {classified} ELSE {}

\* C15: toDbErrorInfo is total; for every error value it returns one result
\* whose kind is timeout, auth_failed, sql_error or unknown, and never throws.
C15_ClassifierTotal ==
    \A c \in Classified :
        /\ c.outcome.ok
        /\ c.outcome.code \in {"timeout", "auth_failed", "sql_error", "unknown"}

\* The driver errors that carry a code, with a message that is a string.
CodedErrors ==
    {c \in Classified :
        /\ c.error.class = "Error"
        /\ c.error.code.t = "string"
        /\ c.error.message.t = "string"}

\* C16: a driver error with a code is classified by the code first, whatever
\* the message says: a timeout code gives timeout, an access-denied code
\* auth_failed, every other code sql_error.
C16_CodeDecidesFirst ==
    \A c \in CodedErrors :
        /\ c.outcome.ok
        /\ c.outcome.code =
             ( IF c.error.code.v \in {<<"E", "T", "I", "M", "E", "D", "O", "U", "T">>,
                                      <<"P", "R", "O", "T", "O", "C", "O", "L", "_", "S", "E", "Q", "U", "E", "N", "C", "E", "_", "T", "I", "M", "E", "O", "U", "T">>,
                                      <<"P", "R", "O", "T", "O", "C", "O", "L", "_", "C", "O", "N", "N", "E", "C", "T", "I", "O", "N", "_", "L", "O", "S", "T">>,
                                      <<"E", "C", "O", "N", "N", "R", "E", "S", "E", "T">>}
               THEN "timeout"
               ELSE IF c.error.code.v \in {<<"E", "R", "_", "A", "C", "C", "E", "S", "S", "_", "D", "E", "N", "I", "E", "D", "_", "E", "R", "R", "O", "R">>,
                                           <<"E", "R", "_", "D", "B", "A", "C", "C", "E", "S", "S", "_", "D", "E", "N", "I", "E", "D", "_", "E", "R", "R", "O", "R">>}
               THEN "auth_failed"
               ELSE "sql_error" )

\* The calls of runInTransaction that are over, with a connection acquired.
TxDone == {c \in Callers : tx[c].pc \in {"returned", "threw"} /\ tx[c].acquired}

\* C18: runInTransaction calls commit exactly when the callback has returned,
\* and returns exactly when the commit succeeded; when beginTransaction, the
\* callback or the commit throws, rollback is called once and the caller gets
\* that first error, also when the rollback fails; the connection is released
\* once when the call is over and not before.
C18_CommitRollbackRelease ==
    /\ \A c \in TxDone :
         /\ tx[c].commits = (IF tx[c].callbackReturned THEN 1 ELSE 0)
         /\ tx[c].committed => tx[c].callbackReturned
         /\ (tx[c].pc = "returned") <=> tx[c].committed
         /\ tx[c].pc = "returned" => tx[c].rollbacks = 0
         /\ tx[c].pc = "threw"
              => /\ tx[c].rollbacks = 1
                 /\ tx[c].thrown \in {"beginTransaction", "callback", "commit"}
                 /\ tx[c].thrown = tx[c].error
         /\ tx[c].releases = 1
    /\ \A c \in Callers \ TxDone : tx[c].releases = 0

\* The commit has thrown, the rollback has failed, and the caller got the
\* error of the commit with the connection released.
C18_Witness ==
    \E c \in TxDone :
        /\ tx[c].callbackReturned
        /\ tx[c].error = "commit"
        /\ tx[c].rollbackFailed
        /\ tx[c].thrown = "commit"
        /\ tx[c].releases = 1

\* The requests to the row-update endpoints that are answered
FinishedRequests == {c \in Callers : upd[c].pc = "done" /\ upd[c].op # "none"}

\* C17: an update whose payload equals the row as it is stored (an unchanged
\* published_at or a price given as '19.99' against 19.99 included) stages no
\* assignment: it reports rowsAffected 0, executes no UPDATE and revalidates
\* no cache path.
C17_EqualPayloadIsNoOp ==
    \A c \in FinishedRequests :
        (upd[c].existing # <<>> /\ upd[c].same /\ upd[c].outcome.kind = "returned") =>
            /\ upd[c].outcome.rowsAffected = 0
            /\ ~upd[c].updated
            /\ ~upd[c].revalidated

\* C19: no UPDATE is executed with assignments staged from a row that another
\* call has written since it was read.
C19_NoStaleUpdate ==
    \A c \in Callers : ~upd[c].staleUpdate

\* Whether a field of the payload fails the validation of its column.
ProductInvalid(payload) ==
    \E k \in 1..Len(PRODUCT_KEYS) :
        /\ payload[PRODUCT_KEYS[k]].t # "absent"
        /\ ~ProductField(payload[PRODUCT_KEYS[k]], PRODUCT_KEYS[k]).ok
PostInvalid(payload) ==
    \E k \in 1..Len(BLOG_KEYS) :
        /\ payload[BLOG_KEYS[k]].t # "absent"
        /\ ~BlogNormalizeValue(payload[BLOG_KEYS[k]], BLOG_COLUMNS[BLOG_KEYS[k]],
                               BLOG_KEYS[k]).ok
InvalidRequests ==
    {c \in FinishedRequests :
        /\ upd[c].existing # <<>>
        /\ \/ upd[c].op = "product" /\ ProductInvalid(upd[c].payload)
           \/ upd[c].op = "post" /\ PostInvalid(upd[c].payload) /\ tx[c].thrown = "callback"}

\* C20: a payload with a field that fails the validation of its column is
\* answered with status 400 and a validation error code, never with a 5xx.
C20_InvalidPayloadIs400 ==
    \A c \in InvalidRequests :
        /\ upd[c].response.status = 400
        /\ upd[c].response.error_code \in {"invalid_payload", "invalid_category"}

\* The requests that have come to updateProduct or updateBlogPost with a
\* payload of which a field fails the validation of its column
RejectedPayloads ==
    {c \in Callers :
        /\ upd[c].payload # <<>>
        /\ \/ upd[c].op = "product" /\ ProductInvalid(upd[c].payload)
           \/ upd[c].op = "post" /\ PostInvalid(upd[c].payload)}

\* C21: a request whose payload fails validation is decided before any
\* statement is sent to the database: no row is read for it, no UPDATE is
\* executed, and it is answered 400 whether or not the row exists.
C21_ValidationBeforeStatements ==
    \A c \in RejectedPayloads :
        /\ upd[c].existing = <<>>
        /\ ~upd[c].updated
        /\ upd[c].pc = "done" => upd[c].response.status = 400

\* The answered blog-post updates that asked for another slug than the one
\* of the row while the row read was marked published
LockedRenames ==
    {c \in FinishedRequests :
        /\ upd[c].op = "post"
        /\ upd[c].existing # <<>>
        /\ SlugChange(upd[c])
        /\ Truthy(upd[c].existing.is_published)}

\* C22: a blog-post update that asks for another slug while the row is
\* published fails with SlugLockedError and is answered 409 slug_locked; no
\* UPDATE is executed, the transaction is rolled back and never committed,
\* and the row is as it was read.
C22_PublishedSlugIsLocked ==
    \A c \in LockedRenames :
        /\ upd[c].outcome.kind = "threw"
        /\ upd[c].outcome.error.class = "SlugLockedError"
        /\ upd[c].response.status = 409
        /\ upd[c].response.error_code = "slug_locked"
        /\ ~upd[c].updated
        /\ tx[c].rollbacks = 1
        /\ tx[c].commits = 0
        /\ ~tx[c].committed
        /\ DriverRow(db.posts) = upd[c].existing
        /\ db.working = db.posts

\* A rename of the published post was refused with 409 and rolled back.
C22_Witness ==
    \E c \in LockedRenames :
        /\ upd[c].response.status = 409
        /\ tx[c].rollbacks = 1
        /\ tx[c].pc = "threw"

\* C30: a blog-post update that is over has revalidated the cache paths of
\* the post only if its transaction was committed; an update that was rolled
\* back, or whose commit failed, has revalidated nothing.
C30_RevalidatedOnlyIfCommitted ==
    \A c \in FinishedRequests :
        (upd[c].op = "post" /\ upd[c].revalidated) => tx[c].committed

\* The columns the configuration tables name, for the two endpoints
AllowList(op) ==
    IF op = "product" THEN {PRODUCT_KEYS[k] : k \in 1..Len(PRODUCT_KEYS)}
    ELSE {BLOG_KEYS[k] : k \in 1..Len(BLOG_KEYS)}

\* C28: every assignment a row-update request stages names a column of the
\* allow-list of its endpoint, a field of the request outside the allow-list
\* is never staged, and the slug column of the rows, which no allow-list
\* names, keeps its value through every sequence of requests.
C28_OnlyAllowListedColumns ==
    /\ \A c \in Callers :
            \A k \in 1..Len(upd[c].assignments) :
                upd[c].assignments[k].key \in AllowList(upd[c].op)
    /\ db.products.slug = Sql("varchar", PRODUCT_SLUG)
    /\ db.posts.slug = Sql("varchar", POST_SLUG)
    /\ db.working.slug = Sql("varchar", POST_SLUG)

\* A request that names a field outside the allow-list next to a title has
\* written the title.
C28_Witness ==
    \E c \in FinishedRequests :
        /\ upd[c].payload # <<>>
        /\ \/ upd[c].op = "product" /\ upd[c].payload.unknown_field.t # "absent"
           \/ upd[c].op = "post" /\ upd[c].payload.slug.t # "absent"
        /\ upd[c].updated
        /\ Len(upd[c].assignments) = 1
        /\ upd[c].response.rows_affected = 1


\* The errors without a code and without an SQL state, with a message that is
\* a string.
MessageOnlyErrors ==
    {c \in Classified :
        /\ IsObject(c.error)
        /\ c.error.code = Undefined
        /\ c.error.sqlState = Undefined
        /\ c.error.metaSqlState = Undefined
        /\ c.error.message.t = "string"}
MessageKind(lower) ==
    IF \/ includes(lower, <<"t", "i", "m", "e", "o", "u", "t">>)
       \/ includes(lower, <<"t", "i", "m", "e", "d", " ", "o", "u", "t">>)
       \/ includes(lower, <<"c", "o", "n", "n", "e", "c", "t", "i", "o", "n", " ", "l", "o", "s", "t">>)
    THEN "timeout"
    ELSE IF \/ includes(lower, <<"a", "c", "c", "e", "s", "s", " ", "d", "e", "n", "i", "e", "d">>)
            \/ includes(lower, <<"p", "e", "r", "m", "i", "s", "s", "i", "o", "n">>)
    THEN "auth_failed"
    ELSE "unknown"

\* C26: an error without a code and without an SQL state is classified by its
\* message alone, lower-cased, the timeout test first: timeout, timed out or
\* connection lost gives timeout, otherwise access denied or permission gives
\* auth_failed, otherwise unknown.
C26_MessageFallback ==
    \A c \in MessageOnlyErrors :
        /\ c.outcome.ok
        /\ c.outcome.code = MessageKind(toLowerCase(c.error.message.v))

\* The same on the plain errors alone, which no test of toDbErrorInfo takes
\* before the fallback.
PlainErrorsFallBack ==
    \A c \in MessageOnlyErrors :
        (c.error.class = "Error" /\ c.error.fatal = Undefined)
            => /\ c.outcome.ok
               /\ c.outcome.code = MessageKind(toLowerCase(c.error.message.v))


\* The status of an answer: NextResponse.json(body) without an init answers
\* 200, NextResponse.json(body, { status }) the status given.
StatusOf(response) ==
    IF "status" \in DOMAIN response THEN response.status ELSE 200

\* The requests to the purge endpoints that were answered missing_env.
MissingEnvPurges ==
    {r \in Reqs : /\ req[r].pc = "done"
                  /\ req[r].kind \in {"purgeSitemaps", "purgeLastBatch", "purgeEverything"}
                  /\ req[r].response.error_code = "missing_env"}

\* C23: an endpoint whose integration has no configuration answers
\* error_code missing_env with status 503 and sends nothing to the external
\* service.
C23_MissingEnvIs503 ==
    /\ \A r \in Reqs :
         (/\ req[r].pc = "done"
          /\ req[r].kind \in {"purgeSitemaps", "purgeLastBatch", "purgeEverything"}
          /\ getCloudflarePurgeConfig = NULL)
            => /\ req[r].response.error_code = "missing_env"
               /\ StatusOf(req[r].response) = 503
               /\ req[r].sent = <<>>
    /\ \A c \in Callers :
         (upd[c].pc = "done" /\ upd[c].response.error_code = "missing_env")
            => /\ upd[c].response.status = 503
               /\ tx[c] = TxIdle

\* What does hold at the purge endpoints: missing_env is answered and nothing
\* is sent.
MissingEnvSendsNothing ==
    \A r \in Reqs :
        (/\ req[r].pc = "done"
         /\ req[r].kind \in {"purgeSitemaps", "purgeLastBatch", "purgeEverything"}
         /\ getCloudflarePurgeConfig = NULL)
            => /\ r \in MissingEnvPurges
               /\ req[r].sent = <<>>


\* The files of the bodies a slot has sent, one body for each attempt.
RECURSIVE FilesSent(_, _)
FilesSent(sent, i) ==
    IF i > Len(sent) THEN {} ELSE Range(sent[i].files) \cup FilesSent(sent, i + 1)

\* C24: with purge-sitemaps and replay requests running side by side, the
\* batch slot holds after every step the whole deduplicated URL list of the
\* latest recordCloudflarePurgeBatch call and of no other; a replay takes the
\* list the slot holds when it reads it, keeps that list whatever is recorded
\* meanwhile, and when it answers it has sent the URLs of that list and no
\* other.
C24_SlotAndReplayUnderRace ==
    [][/\ lastBatch' # NULL
            => /\ lastCall' # NULL
               /\ IsDeduplicated(lastBatch'.urls, lastCall'.urls)
       /\ \A r \in DOMAIN req :
            /\ (/\ req[r].pc = "idle"
                /\ req'[r].kind = "purgeLastBatch"
                /\ req'[r].pc = "fetch")
                 => /\ req'[r].urls = lastBatch.urls
                    /\ lastBatch' = lastBatch
            /\ (req[r].kind = "purgeLastBatch" /\ req[r].pc = "fetch")
                 => req'[r].urls = req[r].urls
            /\ (/\ req'[r].kind = "purgeLastBatch"
                /\ req'[r].pc = "done"
                /\ req'[r].sent # <<>>)
                 => FilesSent(req'[r].sent, 1) = Range(req'[r].urls)]_vars

\* A replay has answered after purging the list of one purge-sitemaps request
\* while a later purge-sitemaps request, still in flight, has put another list
\* in the slot.
C24_Witness ==
    \E r \in DOMAIN req, o \in DOMAIN req :
        /\ req[r].kind = "purgeLastBatch"
        /\ req[r].pc = "done"
        /\ req[r].sent # <<>>
        /\ FilesSent(req[r].sent, 1) = Range(req[r].urls)
        /\ req[o].kind = "purgeSitemaps"
        /\ req[o].pc = "fetch"
        /\ lastBatch.urls = req[o].urls
        /\ Range(req[r].urls) \ Range(lastBatch.urls) # {}
        /\ Range(lastBatch.urls) \ Range(req[r].urls) # {}


\* C29: the purge-sitemaps endpoint has recorded its URL list when it issues
\* its first purge request; no step of a request in which a purge request
\* ends (purged, failed, timed out) or its answer goes out changes the batch
\* slot; a replay
\* and a purge of everything leave the slot as it is, and a replay that
\* follows a replay purges the same list.
C29_BatchOutlivesPurge ==
    [][\A r \in DOMAIN req :
         /\ (/\ req[r].pc = "idle"
             /\ req'[r].kind = "purgeSitemaps"
             /\ req'[r].sent # <<>>)
              => /\ lastBatch' # NULL
                 /\ lastBatch'.urls = req'[r].urls
         /\ (req[r].pc \in {"fetch", "done"} /\ req'[r] # req[r])
              => lastBatch' = lastBatch
         /\ (/\ req[r].pc = "idle"
             /\ req'[r].kind \in {"purgeLastBatch", "purgeEverything"})
              => lastBatch' = lastBatch
         /\ (/\ req[r].pc = "idle"
             /\ req'[r].kind = "purgeLastBatch"
             /\ req'[r].pc = "fetch"
             /\ lastPurge # NULL
             /\ lastPurge.kind = "purgeLastBatch")
              => req'[r].urls = lastPurge.urls]_vars

\* After a purge-sitemaps request and a replay of its batch, a purge of
\* everything has timed out twice and failed; the slot still holds the list.
C29_Witness ==
    \E r \in DOMAIN req :
        /\ req[r].kind = "purgeEverything"
        /\ req[r].pc = "done"
        /\ req[r].sent # <<>>
        /\ ~req[r].response.ok
        /\ req[r].response.attempts = 2
        /\ \E i \in 1..Len(req[r].tried) : req[r].tried[i].type = "abort"
        /\ lastPurge # NULL
        /\ lastPurge.kind = "purgeLastBatch"
        /\ lastBatch # NULL
        /\ lastBatch.urls = lastPurge.urls
        /\ SITEMAP_XML \in Range(lastBatch.urls)


\* The calls of requestCloudflareApi.
ApiCalls == {r \in DOMAIN req : req[r].kind = "requestCloudflareApi"}

\* C27: requestCloudflareApi issues at most retries + 1 requests, returns a
\* response object whatever happens, and issues a further request only after
\* a response with a status of 500 or more: never after a 4xx response, a
\* timeout or a network error.
C27_RetryOnlyAfter5xx ==
    \A r \in ApiCalls :
        LET q == req[r]
        IN  /\ Len(q.sent) <= q.retries + 1
            /\ q.pc = "done"
                 => /\ q.response # NULL
                    /\ q.response.attempts = Len(q.sent)
            /\ \A i \in 1..Len(q.tried) :
                 i < Len(q.sent)
                    => /\ q.tried[i].type = "response"
                       /\ q.tried[i].status >= 500

\* What does hold: the bound on the requests, the return of a response
\* object, and no further request after a response below 500.
ApiBoundedAndTotal ==
    \A r \in ApiCalls :
        LET q == req[r]
        IN  /\ Len(q.sent) <= q.retries + 1
            /\ q.pc = "done"
                 => /\ q.response # NULL
                    /\ q.response.attempts = Len(q.sent)
            /\ \A i \in 1..Len(q.tried) :
                 (i < Len(q.sent) /\ q.tried[i].type = "response")
                    => q.tried[i].status >= 500


\* The calls of verifyAdminSessionToken on a string, with what the string
\* decodes to.
StringCalls ==
    IF verdict # NULL /\ verdict.op = "verifyString" THEN {verdict} ELSE {}
DecodedOf(v) == fromBase64Url(v.presented)
PartsOf(v) == Split(DecodedOf(v).value, ":")
\* A text that writes a number: digits, with at most a sign, a point and
\* white space, and no other character.
IsNumeral(text) ==
    /\ \E i \in 1..Len(text) : text[i] \in Digit
    /\ \A i \in 1..Len(text) : text[i] \in Digit \cup {"-", "+", ".", " "}
SignatureMatches(v) ==
    /\ DecodedOf(v).ok
    /\ Len(PartsOf(v)) >= 3
    /\ PartsOf(v)[3] = signPayload(PartsOf(v)[1] \o <<":">> \o PartsOf(v)[2], v.secret)

\* C25: verifyAdminSessionToken answers true or false for every string; it
\* answers false for a string that is no base64, for the empty string, for
\* an issuedAt that is no number and for a signature of another length or
\* of other characters than the HMAC of issuedAt:nonce under the secret.
C25_VerifyFailsClosed ==
    \A v \in StringCalls :
        /\ v.result \in BOOLEAN
        /\ ~DecodedOf(v).ok => ~v.result
        /\ v.presented = <<>> => ~v.result
        /\ v.result => SignatureMatches(v)
        /\ v.result => IsNumeral(PartsOf(v)[1])

\* What does hold: true only for a decoded string whose signature is the HMAC
\* of its first two parts and whose first part parseInt reads as a number.
VerifyTrueOnlyIfSigned ==
    \A v \in StringCalls :
        /\ v.result \in BOOLEAN
        /\ ~DecodedOf(v).ok => ~v.result
        /\ v.presented = <<>> => ~v.result
        /\ v.result => SignatureMatches(v)
        /\ v.result => ~parseInt(PartsOf(v)[1]).nan
        /\ (DecodedOf(v).ok /\ Len(PartsOf(v)) >= 3 /\ ~SignatureMatches(v)) => ~v.result

====
